---------------------------- MODULE Spec2Model ----------------------------
(***************************************************************************)
(* The generalized-alpha time integrator of the rigid pendulum proof of    *)
(* concept: GeneralizedAlphaTimeIntegrator (construction, Integrate,       *)
(* AlphaStep, UpdateGeneralizedCoordinates, CheckConvergence), the State   *)
(* whose Kokkos views it reads and writes, and the quaternion operations   *)
(* the coordinate update uses.                                             *)
(*                                                                         *)
(* A double is modelled as an exact rational [n, d] in lowest terms with   *)
(* d > 0; d = 0 stands for every non-finite double (inf, nan), which every *)
(* arithmetic operation propagates.                                        *)
(***************************************************************************)
EXTENDS Integers, Sequences, FiniteSets, TLC

(***************************************************************************)
(* Bounds of the model                                                     *)
(***************************************************************************)
\* largest number of time steps N of a time stepper
MaxSteps == 2
\* largest maximum number M of Newton iterations per step
MaxIterations == 2
\* largest number of constraints (Lagrange multipliers) passed to Integrate
MaxConstraints == 1

(***************************************************************************)
(* Doubles as rationals                                                    *)
(***************************************************************************)
RECURSIVE GCD(_, _)
GCD(a, b) == IF b = 0 THEN a ELSE GCD(b, a % b)

Abs(x) == IF x < 0 THEN -x ELSE x

NonFinite == [n |-> 0, d |-> 0]

IsFinite(a) == a.d # 0

\* the double n/d, in lowest terms
Rat(n, d) ==
    IF d = 0 THEN NonFinite
    ELSE LET g == GCD(Abs(n), Abs(d))
             s == IF d < 0 THEN -1 ELSE 1
         IN [n |-> (s * n) \div g, d |-> (s * d) \div g]

R(n) == [n |-> n, d |-> 1]

Zero == R(0)
One == R(1)

RAdd(a, b) ==
    IF a.d = 0 \/ b.d = 0 THEN NonFinite
    ELSE LET g == GCD(a.d, b.d)
         IN Rat(a.n * (b.d \div g) + b.n * (a.d \div g), (a.d \div g) * b.d)

RNeg(a) == IF a.d = 0 THEN NonFinite ELSE [n |-> -a.n, d |-> a.d]

RSub(a, b) == RAdd(a, RNeg(b))

RMul(a, b) ==
    IF a.d = 0 \/ b.d = 0 THEN NonFinite
    ELSE LET g1 == GCD(Abs(a.n), b.d)
             g2 == GCD(Abs(b.n), a.d)
         IN Rat((a.n \div g1) * (b.n \div g2), (a.d \div g2) * (b.d \div g1))

\* IEEE division: a finite value over zero is non-finite, as is 0/0
RDiv(a, b) ==
    IF a.d = 0 \/ b.d = 0 \/ b.n = 0 THEN NonFinite
    ELSE RMul(a, Rat(b.d, b.n))

\* an/ad < bn/bd for ad, bd > 0, by continued fractions (no product is formed)
RECURSIVE FracLess(_, _, _, _)
FracLess(an, ad, bn, bd) ==
    LET fa == an \div ad
        fb == bn \div bd
        ra == an % ad
        rb == bn % bd
    IN IF fa # fb THEN fa < fb
       ELSE IF rb = 0 THEN FALSE
       ELSE IF ra = 0 THEN TRUE
       ELSE FracLess(bd, rb, ad, ra)

\* a < b on doubles; every comparison with a non-finite value is false here
\* (the only values compared are norms, which are never -inf)
RLess(a, b) == a.d # 0 /\ b.d # 0 /\ FracLess(a.n, a.d, b.n, b.d)

RLessEq(a, b) == a.d # 0 /\ b.d # 0 /\ ~FracLess(b.n, b.d, a.n, a.d)

RAbs(a) == IF a.d = 0 THEN NonFinite ELSE [n |-> Abs(a.n), d |-> a.d]

\* sqrt(s) < t for s >= 0 and 0 < t <= 1, decided as s < t /\ s / t < t: the
\* square of t is never formed
SqrtLess(s, t) == RLess(s, t) /\ RLess(RDiv(s, t), t)

(***************************************************************************)
(* Dense vectors and matrices (Kokkos host views), 1-based here            *)
(***************************************************************************)
RECURSIVE View(_, _)
\* the n entries of f, stored: a view holds values, not expressions
View(f, n) == IF n = 0 THEN << >> ELSE Append(View(f, n - 1), f[n])

Vec(n, x) == View([k \in 1..n |-> x], n)

VecOfInts(s) == View([k \in 1..Len(s) |-> R(s[k])], Len(s))

create_identity_vector(size) == Vec(size, One)

create_identity_matrix(size) ==
    View([r \in 1..size |->
             View([c \in 1..size |-> IF r = c THEN One ELSE Zero], size)], size)

RECURSIVE SumTo(_, _)
\* f[1] + ... + f[k]
SumTo(f, k) == IF k = 0 THEN Zero ELSE RAdd(SumTo(f, k - 1), f[k])

multiply_matrix_with_matrix(A, B) ==
    View([r \in 1..Len(A) |->
             View([c \in 1..Len(B[1]) |->
                      SumTo(View([k \in 1..Len(B) |-> RMul(A[r][k], B[k][c])], Len(B)),
                            Len(B))], Len(B[1]))], Len(A))

MatrixIsFinite(A) == \A r \in 1..Len(A) : \A c \in 1..Len(A[r]) : IsFinite(A[r][c])

VectorIsFinite(b) == \A k \in 1..Len(b) : IsFinite(b[k])

(***************************************************************************)
(* solve_linear_system(A, b): dense LU solve of A x = b (LAPACKE_dgesv).   *)
(* The augmented matrix is reduced column by column; a column with no      *)
(* nonzero pivot is the solver's failure signal.                           *)
(***************************************************************************)
Augmented(A, b) ==
    View([r \in 1..Len(A) |->
             View([c \in 1..(Len(A) + 1) |-> IF c <= Len(A) THEN A[r][c] ELSE b[r]],
                  Len(A) + 1)], Len(A))

PivotRows(M, k) == {p \in k..Len(M) : M[p][k] # Zero}

SwapRows(M, k, p) ==
    View([r \in 1..Len(M) |-> IF r = k THEN M[p] ELSE IF r = p THEN M[k] ELSE M[r]],
         Len(M))

\* row k scaled to a unit pivot and eliminated from every other row
Eliminate(M, k) ==
    LET piv == View([c \in 1..Len(M[k]) |-> RDiv(M[k][c], M[k][k])], Len(M[k]))
    IN View([r \in 1..Len(M) |->
                IF r = k THEN piv
                ELSE View([c \in 1..Len(M[r]) |-> RSub(M[r][c], RMul(M[r][k], piv[c]))],
                          Len(M[r]))], Len(M))

RECURSIVE Reduce(_, _)
\* the reduced augmented matrix, or << >> when some column has no pivot
Reduce(M, k) ==
    IF k > Len(M) THEN M
    ELSE IF PivotRows(M, k) = {} THEN << >>
    ELSE LET p == CHOOSE x \in PivotRows(M, k) : \A y \in PivotRows(M, k) : x <= y
         IN Reduce(Eliminate(SwapRows(M, k, p), k), k + 1)

\* [ok, x]: ok is false when the solver throws (not square, sizes differ, singular)
solve_linear_system(A, b) ==
    IF Len(A) = 0 \/ Len(A[1]) # Len(A) \/ Len(b) # Len(A)
      THEN [ok |-> FALSE, x |-> b]
    ELSE IF ~MatrixIsFinite(A) \/ ~VectorIsFinite(b)
      THEN [ok |-> TRUE, x |-> Vec(Len(b), NonFinite)]
    ELSE LET red == Reduce(Augmented(A, b), 1)
         IN IF red = << >> THEN [ok |-> FALSE, x |-> b]
            ELSE [ok |-> TRUE,
                  x |-> View([r \in 1..Len(b) |-> red[r][Len(A) + 1]], Len(b))]

(***************************************************************************)
(* Rotation algebra: 3-vectors and quaternions as tuples of doubles        *)
(***************************************************************************)
\* close_to(a, b): |a - b| < kTOLERANCE
kTOLERANCE == Rat(1, 1000000)

close_to(a, b) == RLess(RAbs(RSub(a, b)), kTOLERANCE)

VectorAdd(u, w) == <<RAdd(u[1], w[1]), RAdd(u[2], w[2]), RAdd(u[3], w[3])>>

VectorScale(u, x) == <<RMul(u[1], x), RMul(u[2], x), RMul(u[3], x)>>

\* Quaternion::operator*(const Quaternion&): the Hamilton product
QuaternionProduct(a, b) ==
    << RSub(RSub(RSub(RMul(a[1], b[1]), RMul(a[2], b[2])), RMul(a[3], b[3])), RMul(a[4], b[4])),
       RSub(RAdd(RAdd(RMul(a[1], b[2]), RMul(a[2], b[1])), RMul(a[3], b[4])), RMul(a[4], b[3])),
       RAdd(RAdd(RSub(RMul(a[1], b[3]), RMul(a[2], b[4])), RMul(a[3], b[1])), RMul(a[4], b[2])),
       RAdd(RSub(RAdd(RMul(a[1], b[4]), RMul(a[2], b[3])), RMul(a[3], b[2])), RMul(a[4], b[1])) >>

\* the square of Quaternion::Length()
LengthSquared(q) ==
    RAdd(RAdd(RAdd(RMul(q[1], q[1]), RMul(q[2], q[2])), RMul(q[3], q[3])), RMul(q[4], q[4]))

(***************************************************************************)
(* std::cos(angle / 2) and std::sin(angle / 2) / angle as functions of     *)
(* x = angle^2.  Neither is rational; the model evaluates both by the      *)
(* rational approximant with tan(angle / 4) = angle / 4, which agrees with *)
(* them to second order in the angle and keeps cos^2 + sin^2 = 1 exactly.  *)
(***************************************************************************)
CosHalfAngle(x) == RDiv(RSub(R(16), x), RAdd(R(16), x))

SinHalfAngleOverAngle(x) == RDiv(R(8), RAdd(R(16), x))

quaternion_from_rotation_vector(vector) ==
    LET v0 == vector[1]
        v1 == vector[2]
        v2 == vector[3]
        angle_squared == RAdd(RAdd(RMul(v0, v0), RMul(v1, v1)), RMul(v2, v2))
        factor == SinHalfAngleOverAngle(angle_squared)
    IN IF SqrtLess(angle_squared, kTOLERANCE)
         THEN <<One, Zero, Zero, Zero>>
         ELSE <<CosHalfAngle(angle_squared), RMul(v0, factor), RMul(v1, factor),
                RMul(v2, factor)>>

(***************************************************************************)
(* Inputs of the model                                                     *)
(***************************************************************************)
\* values tried for alpha_f, alpha_m and gamma: below, at and above [0, 1]
AlphaValues == {Rat(-1, 10), Zero, Rat(1, 2), One, Rat(11, 10)}

\* values tried for beta: below, at and above [0, 0.5]
BetaValues == {Rat(-1, 10), Zero, Rat(1, 4), Rat(1, 2), Rat(3, 4)}

\* (alpha_f, alpha_m, beta, gamma) of the unit tests and of the defaults
RunConstants == {<<Zero, Zero, Rat(1, 2), One>>,
                 <<Rat(1, 2), Rat(1, 2), Rat(1, 4), Rat(1, 2)>>}

InitialTimes == {Zero, Rat(1, 2)}

TimeSteps == {One, Rat(1, 2)}

\* State(): four views of one zero entry
DefaultState == [q |-> Vec(1, Zero), v |-> Vec(1, Zero), a |-> Vec(1, Zero),
                 aa |-> Vec(1, Zero)]

\* State(v, v, v, v) with v = (1, 2, 3)
ThreeDofState == [q |-> VecOfInts(<<1, 2, 3>>), v |-> VecOfInts(<<1, 2, 3>>),
                  a |-> VecOfInts(<<1, 2, 3>>), aa |-> VecOfInts(<<1, 2, 3>>)]

\* rigid bodies: position and unit quaternion (7), velocities (6)
RigidBodyStates ==
    {[q |-> VecOfInts(<<0, -1, 0, 1, 0, 0, 0>>), v |-> VecOfInts(<<1, 1, 1, 1, 2, 3>>),
      a |-> Vec(6, Zero), aa |-> Vec(6, Zero)],
     [q |-> <<One, Zero, R(2), Rat(3, 5), Rat(4, 5), Zero, Zero>>, v |-> Vec(6, Zero),
      a |-> VecOfInts(<<0, 0, 0, 1, 0, 0>>), aa |-> VecOfInts(<<0, 0, 0, 1, 0, 0>>)]}

LinearStates == {DefaultState, ThreeDofState}

\* the runs of the unit tests: TimeStepper(0., 1.0, 10) and TimeStepper(0., 0.1, 17),
\* each with the default maximum number of iterations
TestRuns == {[h |-> One, n |-> 10, m |-> 10], [h |-> Rat(1, 10), n |-> 17, m |-> 10]}

\* "identity": create_identity_residual_vector / create_identity_iteration_matrix;
\* "callable": any other pair of callables handed to Integrate
Builders == {"identity", "callable"}

\* the entries a callable residual returns (all entries alike)
ResidualLevels == {Rat(1, 40000), One}

\* the entry for which a residual of four entries has a norm of exactly 1e-4
BoundaryResidualLevel == Rat(1, 20000)

\* what an out-of-extent read of a view returns
Garbage == {Zero, R(7)}

(***************************************************************************)
(* State: four Kokkos views.  A view is a reference into the heap of       *)
(* allocations; copying a view or a State copies references, and only      *)
(* Kokkos::deep_copy copies entries.                                       *)
(***************************************************************************)
VARIABLES
    pc,                 \* where the caller is: construction, Integrate, AlphaStep
    kALPHA_F_, kALPHA_M_, kBETA_, kGAMMA_, precondition_, is_converged_,
    time_stepper_,      \* the integrator's TimeStepper
    heap,               \* the allocations of the views held by States
    initial_state,      \* the caller's State handed to Integrate
    n_constraints,      \* Integrate's argument
    builders,           \* Integrate's iteration_matrix and residual arguments
    states,             \* Integrate's local std::vector<State>
    i,                  \* Integrate's loop index
    frame,              \* AlphaStep's local views
    appended,           \* history: the entries of each State when it was appended
    step_entry,         \* history: time stepper and heap when the current step began
    check_passed,       \* history: a residual check of the current step passed
    update_ops,         \* history: what the last coordinate update applied
    step_log,           \* history: the operations of the current AlphaStep, in order
    checked,            \* history: the last CheckConvergence call and its result
    oob,                \* history: an access outside a view's extent happened
    call,               \* a call of a constructor of state.cpp or a function of quaternion.cpp
    result              \* what that call returned

vars == <<pc, kALPHA_F_, kALPHA_M_, kBETA_, kGAMMA_, precondition_, is_converged_,
          time_stepper_, heap, initial_state, n_constraints, builders, states, i,
          frame, appended, step_entry, check_passed, update_ops, step_log, checked,
          oob, call, result>>

\* the variables of a call that involves no integrator
library == <<call, result>>

\* the variables of an integrator and its run
integrator == <<kALPHA_F_, kALPHA_M_, kBETA_, kGAMMA_, precondition_, is_converged_,
                time_stepper_, heap, initial_state, n_constraints, builders, states, i,
                frame, appended, step_entry, check_passed, update_ops, step_log,
                checked, oob>>

arguments == <<kALPHA_F_, kALPHA_M_, kBETA_, kGAMMA_, precondition_, n_constraints,
               builders, initial_state>>

\* TimeStepper(initial_time, time_step, number_of_steps, max_iterations)
TimeStepper(initial_time, time_step, number_of_steps, max_iterations) ==
    [initial_time_ |-> initial_time, time_step_ |-> time_step,
     n_steps_ |-> number_of_steps, max_iterations_ |-> max_iterations,
     current_time_ |-> initial_time, n_iterations_ |-> 0, total_n_iterations_ |-> 0]

AdvanceTimeStep(ts) == [ts EXCEPT !.current_time_ = RAdd(@, ts.time_step_)]

SetNumberOfIterations(ts, n) == [ts EXCEPT !.n_iterations_ = n]

\* a variant of the increment that counts a pass of the Newton loop twice
IncrementNumberOfIterationsTwice(ts) == [ts EXCEPT !.n_iterations_ = @ + 2]

IncrementNumberOfIterations(ts) == [ts EXCEPT !.n_iterations_ = @ + 1]

\* a variant that stores the step's count in place of adding it
StoreTotalNumberOfIterations(ts, n) == [ts EXCEPT !.total_n_iterations_ = n]

IncrementTotalNumberOfIterations(ts, n) == [ts EXCEPT !.total_n_iterations_ = @ + n]

\* State::State(q, v, v_dot, a): four new allocations, filled by deep_copy
StateConstructor(h, q, v, v_dot, a) ==
    [heap |-> h \o <<q, v, v_dot, a>>,
     state |-> [generalized_coords_ |-> Len(h) + 1, velocity_ |-> Len(h) + 2,
                acceleration_ |-> Len(h) + 3, algorithmic_acceleration_ |-> Len(h) + 4]]

\* the entries a State's views show
Entries(h, state) ==
    [q |-> h[state.generalized_coords_], v |-> h[state.velocity_],
     a |-> h[state.acceleration_], aa |-> h[state.algorithmic_acceleration_]]

NoFrame == [gen_coords |-> 0, velocity |-> 0, acceleration |-> 0, algo_acceleration |-> 0,
            gen_coords_next |-> << >>, algo_acceleration_next |-> << >>,
            delta_gen_coords |-> << >>, lagrange_mults_next |-> << >>]

\* the arguments of one construction and one Integrate call
Arguments(c, t0, h, n, m, s, b, p, k) ==
    /\ kALPHA_F_ = c[1] /\ kALPHA_M_ = c[2] /\ kBETA_ = c[3] /\ kGAMMA_ = c[4]
    /\ time_stepper_ = TimeStepper(t0, h, n, m)
    /\ heap = StateConstructor(<< >>, s.q, s.v, s.a, s.aa).heap
    /\ initial_state = StateConstructor(<< >>, s.q, s.v, s.a, s.aa).state
    /\ builders = b
    /\ precondition_ = p
    /\ n_constraints = k

\* the arguments of the heavy-top assemblers
Problem(mass_matrix, inertia_matrix, rotation_matrix, position_vector, angular_velocity_vector, lagrange_multipliers, acceleration_vector, gen_forces_vector, primes) ==
    [mass_matrix |-> mass_matrix, inertia_matrix |-> inertia_matrix,
     rotation_matrix |-> rotation_matrix, position_vector |-> position_vector,
     angular_velocity_vector |-> angular_velocity_vector,
     lagrange_multipliers |-> lagrange_multipliers,
     acceleration_vector |-> acceleration_vector,
     gen_forces_vector |-> gen_forces_vector,
     BETA_PRIME |-> primes[1], GAMMA_PRIME |-> primes[2]]

NoProblem == Problem(<< >>, << >>, << >>, << >>, << >>, << >>, << >>, << >>, <<Zero, Zero>>)

\* a call: the function and its arguments (those it does not take are empty)
Call(op, scalar, first, second, quaternion, view1, view2) ==
    [op |-> op, scalar |-> scalar, first |-> first, second |-> second,
     quaternion |-> quaternion, view1 |-> view1, view2 |-> view2, problem |-> NoProblem]

NoCall == Call("", Zero, << >>, << >>, << >>, << >>, << >>)

Init ==
    /\ pc = "new"
    /\ \/ \E af \in AlphaValues, am \in AlphaValues, b \in BetaValues, g \in AlphaValues :
             Arguments(<<af, am, b, g>>, Zero, One, 1, 1, DefaultState, "identity", FALSE, 0)
       \/ \E c \in RunConstants, h \in TimeSteps, n \in 1..MaxSteps,
             m \in 1..MaxIterations, s \in LinearStates, b \in Builders, p \in BOOLEAN,
             k \in 0..MaxConstraints :
             Arguments(c, Zero, h, n, m, s, b, p, k)
       \/ \E c \in RunConstants, h \in TimeSteps, n \in 1..(MaxSteps - 1),
             m \in 1..MaxIterations, s \in RigidBodyStates, b \in Builders, p \in BOOLEAN,
             k \in 0..MaxConstraints :
             Arguments(c, Zero, h, n, m, s, b, p, k)
       \/ \E c \in RunConstants, t0 \in InitialTimes, h \in TimeSteps, n \in 1..MaxSteps :
             Arguments(c, t0, h, n, 1, DefaultState, "identity", FALSE, 0)
       \/ \E c \in RunConstants, run \in TestRuns :
             Arguments(c, Zero, run.h, run.n, run.m, DefaultState, "identity", FALSE, 0)
    /\ is_converged_ = FALSE
    /\ states = << >>
    /\ i = 0
    /\ frame = NoFrame
    /\ appended = << >>
    /\ step_entry = [time_stepper |-> time_stepper_, heap |-> heap]
    /\ check_passed = FALSE
    /\ update_ops = << >>
    /\ step_log = << >>
    /\ checked = [residual |-> << >>, result |-> FALSE]
    /\ oob = FALSE
    /\ call = NoCall
    /\ result = << >>

(***************************************************************************)
(* GeneralizedAlphaTimeIntegrator::GeneralizedAlphaTimeIntegrator          *)
(***************************************************************************)
InvalidAlphaF(x) == RLess(x, Zero) \/ RLess(One, x)

InvalidAlphaM(x) == RLess(x, Zero) \/ RLess(One, x)

\* a variant of the check on beta that also rejects the endpoints
InvalidBetaOpen(x) == RLessEq(x, Zero) \/ RLessEq(Rat(1, 2), x)

InvalidBeta(x) == RLess(x, Zero) \/ RLess(Rat(1, 2), x)

InvalidGamma(x) == RLess(x, Zero) \/ RLess(One, x)

Construct ==
    /\ UNCHANGED library
    /\ pc = "new"
    /\ pc' = IF \/ InvalidAlphaF(kALPHA_F_)
                \/ InvalidAlphaM(kALPHA_M_)
                \/ InvalidBeta(kBETA_)
                \/ InvalidGamma(kGAMMA_)
               THEN "invalid_argument"
               ELSE "constructed"
    /\ is_converged_' = FALSE
    /\ UNCHANGED <<arguments, time_stepper_, heap, states, i, frame, appended, step_entry,
                   check_passed, update_ops, step_log, checked, oob>>

(***************************************************************************)
(* The callables handed to Integrate                                       *)
(***************************************************************************)
\* residual(gen_coords, velocity, acceleration, lagrange_mults); level is the
\* entry a callable other than the identity builder returns
residual(level, acceleration, lagrange_mults) ==
    IF builders = "identity"
      THEN create_identity_vector(Len(acceleration) + Len(lagrange_mults))
      ELSE Vec(Len(acceleration) + Len(lagrange_mults), level)

\* iteration_matrix(BETA_PRIME, GAMMA_PRIME, gen_coords, velocity, lagrange_mults,
\* h, delta_gen_coords); a callable other than the identity builder may return a
\* singular (here: zero) matrix
it_matrix(singular, velocity, lagrange_mults) ==
    IF builders = "identity" \/ ~singular
      THEN create_identity_matrix(Len(velocity) + Len(lagrange_mults))
      ELSE Vec(Len(velocity) + Len(lagrange_mults),
               Vec(Len(velocity) + Len(lagrange_mults), Zero))

ResidualChoices ==
    IF builders = "identity" THEN {One}
    ELSE IF /\ Len(heap[initial_state.velocity_]) + n_constraints = 4
            /\ i = 0
            /\ time_stepper_.n_iterations_ = 0
      THEN ResidualLevels \cup {BoundaryResidualLevel}
    ELSE ResidualLevels

SingularChoices == IF builders = "identity" THEN {FALSE} ELSE BOOLEAN

(***************************************************************************)
(* GeneralizedAlphaTimeIntegrator::CheckConvergence                        *)
(***************************************************************************)
kCONVERGENCETOLERANCE == Rat(1, 10000)

\* a check that also accepts a norm equal to the tolerance
CheckConvergenceInclusive(res) ==
    RLessEq(SumTo(View([k \in 1..Len(res) |-> RMul(res[k], res[k])], Len(res)),
                  Len(res)),
            RMul(kCONVERGENCETOLERANCE, kCONVERGENCETOLERANCE))

CheckConvergence(res) ==
    SqrtLess(SumTo(View([k \in 1..Len(res) |-> RMul(res[k], res[k])], Len(res)),
                   Len(res)),
             kCONVERGENCETOLERANCE)

(***************************************************************************)
(* GeneralizedAlphaTimeIntegrator::UpdateGeneralizedCoordinates            *)
(***************************************************************************)
\* view(k) for the 0-based index k; garbage when k is outside the extent
ViewRead(view, k, garbage) == IF k + 1 <= Len(view) THEN view[k + 1] ELSE garbage

\* the rotation-algebra operations the update applies, in order
UpdateOperations == <<"quaternion_from_rotation_vector", "operator*">>

\* a variant of the composition with the factors exchanged
UpdatedOrientationRight(current_orientation, update_orientation) ==
    QuaternionProduct(update_orientation, current_orientation)

\* the orientation the update stores
UpdatedOrientation(current_orientation, update_orientation) ==
    QuaternionProduct(current_orientation, update_orientation)

UpdateGeneralizedCoordinates(gen_coords, delta_gen_coords, garbage) ==
    LET h == time_stepper_.time_step_
        current_position == <<ViewRead(gen_coords, 0, garbage),
                              ViewRead(gen_coords, 1, garbage),
                              ViewRead(gen_coords, 2, garbage)>>
        updated_position == <<ViewRead(delta_gen_coords, 0, garbage),
                              ViewRead(delta_gen_coords, 1, garbage),
                              ViewRead(delta_gen_coords, 2, garbage)>>
        r == VectorAdd(current_position, VectorScale(updated_position, h))
        current_orientation == <<ViewRead(gen_coords, 3, garbage),
                                 ViewRead(gen_coords, 4, garbage),
                                 ViewRead(gen_coords, 5, garbage),
                                 ViewRead(gen_coords, 6, garbage)>>
        update_orientation == quaternion_from_rotation_vector(
            VectorScale(<<ViewRead(delta_gen_coords, 3, garbage),
                          ViewRead(delta_gen_coords, 4, garbage),
                          ViewRead(delta_gen_coords, 5, garbage)>>, h))
        q == UpdatedOrientation(current_orientation, update_orientation)
    IN View([k \in 1..Len(gen_coords) |->
                IF k <= 3 THEN r[k] ELSE IF k <= 7 THEN q[k - 3] ELSE garbage],
            Len(gen_coords))

\* the update reads gen_coords(0..6) and delta_gen_coords(0..5)
UpdateOutOfExtent(gen_coords, delta_gen_coords) ==
    Len(gen_coords) < 7 \/ Len(delta_gen_coords) < 6

\* what the update's reads outside the extents may return; nothing is read
\* there when the views are long enough
GarbageChoices(gen_coords, delta_gen_coords) ==
    IF UpdateOutOfExtent(gen_coords, delta_gen_coords) THEN Garbage ELSE {Zero}

(***************************************************************************)
(* GeneralizedAlphaTimeIntegrator::AlphaStep                               *)
(***************************************************************************)
\* a variant of BETA_PRIME with the quotient inverted
BETA_PRIME_Inverted ==
    LET h == time_stepper_.time_step_
    IN RDiv(RMul(RMul(RMul(h, h), kBETA_), RSub(One, kALPHA_F_)),
            RSub(One, kALPHA_M_))

BETA_PRIME ==
    LET h == time_stepper_.time_step_
    IN RDiv(RSub(One, kALPHA_M_),
            RMul(RMul(RMul(h, h), kBETA_), RSub(One, kALPHA_F_)))

\* a variant of GAMMA_PRIME with the quotient inverted
GAMMA_PRIME_Inverted == RDiv(RMul(time_stepper_.time_step_, kBETA_), kGAMMA_)

GAMMA_PRIME == RDiv(kGAMMA_, RMul(time_stepper_.time_step_, kBETA_))

\* kBETA_ * h * h
BetaHSquared == RMul(RMul(kBETA_, time_stepper_.time_step_), time_stepper_.time_step_)

\* the predictor, per entry (Table 1 of Bruls, Cardona and Arnold 2012)
PredictAlgoAccelerationNext(acceleration, algo_acceleration) ==
    RDiv(RSub(RMul(kALPHA_F_, acceleration), RMul(kALPHA_M_, algo_acceleration)),
         RSub(One, kALPHA_M_))

\* a variant of the predicted increment that reads the velocity after its update
PredictDeltaGenCoordsFromNewVelocity(velocity, algo_acceleration, algo_acceleration_next) ==
    LET h == time_stepper_.time_step_
        updated == RAdd(velocity,
                        RAdd(RMul(RMul(h, RSub(One, kGAMMA_)), algo_acceleration),
                             RMul(RMul(h, kGAMMA_), algo_acceleration_next)))
    IN RAdd(RAdd(updated, RMul(RMul(h, RSub(Rat(1, 2), kBETA_)), algo_acceleration)),
            RMul(RMul(h, kBETA_), algo_acceleration_next))

PredictDeltaGenCoords(velocity, algo_acceleration, algo_acceleration_next) ==
    LET h == time_stepper_.time_step_
    IN RAdd(RAdd(velocity, RMul(RMul(h, RSub(Rat(1, 2), kBETA_)), algo_acceleration)),
            RMul(RMul(h, kBETA_), algo_acceleration_next))

PredictVelocity(velocity, algo_acceleration, algo_acceleration_next) ==
    LET h == time_stepper_.time_step_
    IN RAdd(velocity,
            RAdd(RMul(RMul(h, RSub(One, kGAMMA_)), algo_acceleration),
                 RMul(RMul(h, kGAMMA_), algo_acceleration_next)))

\* a variant of the left scale that scales the constraint rows instead
dlOnConstraintRows(size) ==
    View([r \in 1..(size + n_constraints) |->
             View([c \in 1..(size + n_constraints) |->
                      IF r # c \/ ~precondition_ THEN Zero
                      ELSE IF r - 1 >= size THEN BetaHSquared ELSE One],
                  size + n_constraints)], size + n_constraints)

\* the preconditioner's diagonal scales (zero matrices unless precondition_)
dl(size) ==
    View([r \in 1..(size + n_constraints) |->
             View([c \in 1..(size + n_constraints) |->
                      IF r # c \/ ~precondition_ THEN Zero
                      ELSE IF r - 1 >= size THEN One ELSE BetaHSquared],
                  size + n_constraints)], size + n_constraints)

dr(size) ==
    View([r \in 1..(size + n_constraints) |->
             View([c \in 1..(size + n_constraints) |->
                      IF r # c \/ ~precondition_ THEN Zero
                      ELSE IF r - 1 >= size THEN RDiv(One, BetaHSquared) ELSE One],
                  size + n_constraints)], size + n_constraints)

\* parallel_for(6, ...): residuals(i) = residuals(i) * kBETA_ * h * h
ScaleResiduals(residuals) ==
    LET h == time_stepper_.time_step_
    IN View([k \in 1..Len(residuals) |->
                IF k - 1 < 6 THEN RMul(RMul(RMul(residuals[k], kBETA_), h), h)
                ELSE residuals[k]], Len(residuals))

ScalingOutOfExtent(residuals) == Len(residuals) < 6

\* a variant of the loop's condition that allows one more iteration
LoopConditionInclusive(n_iterations, max_iterations) == n_iterations <= max_iterations

\* the Newton loop's condition
LoopCondition(n_iterations, max_iterations) == n_iterations < max_iterations

\* a variant of the increment of delta_gen_coords without the division by h
IncrementDeltaGenCoordsUndivided(delta_gen_coords, delta_x) ==
    RAdd(delta_gen_coords, delta_x)

\* delta_gen_coords(i) += delta_x(i) / h
IncrementDeltaGenCoords(delta_gen_coords, delta_x) ==
    RAdd(delta_gen_coords, RDiv(delta_x, time_stepper_.time_step_))

\* the increments of one iteration that did not converge, from the solution
ApplyIncrements(soln_increments, delta_gen_coords, velocity, acceleration, lagrange_mults_next) ==
    LET h == time_stepper_.time_step_
        size == Len(velocity)
        delta_x == View([k \in 1..Len(delta_gen_coords) |-> RNeg(soln_increments[k])],
                        Len(delta_gen_coords))
        delta_lagrange_mults ==
            View([k \in 1..n_constraints |->
                IF precondition_
                  THEN RDiv(RNeg(soln_increments[k + Len(delta_gen_coords)]), BetaHSquared)
                  ELSE RNeg(soln_increments[k + Len(delta_gen_coords)])], n_constraints)
    IN [delta_gen_coords |->
            View([k \in 1..size |-> IncrementDeltaGenCoords(delta_gen_coords[k], delta_x[k])],
                 size),
        velocity |->
            View([k \in 1..size |-> RAdd(velocity[k], RMul(GAMMA_PRIME, delta_x[k]))], size),
        acceleration |->
            View([k \in 1..size |-> RAdd(acceleration[k], RMul(BETA_PRIME, delta_x[k]))],
                 size),
        lagrange_mults_next |->
            IF n_constraints > 0
              THEN View([k \in 1..n_constraints |->
                            RAdd(lagrange_mults_next[k], delta_lagrange_mults[k])],
                        n_constraints)
              ELSE lagrange_mults_next]

\* a variant of the close with the quotient inverted
CloseAlgoAccelerationInverted(algo_acceleration_next, acceleration) ==
    RAdd(algo_acceleration_next,
         RMul(RDiv(RSub(One, kALPHA_M_), RSub(One, kALPHA_F_)), acceleration))

\* the algorithmic acceleration that closes the step, per entry
CloseAlgoAcceleration(algo_acceleration_next, acceleration) ==
    RAdd(algo_acceleration_next,
         RMul(RDiv(RSub(One, kALPHA_F_), RSub(One, kALPHA_M_)), acceleration))

(***************************************************************************)
(* GeneralizedAlphaTimeIntegrator::Integrate                               *)
(***************************************************************************)
\* std::vector<State> states{initial_state}: the State is copied, its views
\* still refer to the caller's allocations
IntegrateBegin ==
    /\ UNCHANGED library
    /\ pc = "constructed"
    /\ states' = <<initial_state>>
    /\ appended' = <<Entries(heap, initial_state)>>
    /\ i' = 0
    /\ pc' = "loop"
    /\ UNCHANGED <<arguments, is_converged_, time_stepper_, heap, frame, step_entry,
                   check_passed, update_ops, step_log, checked, oob>>

\* a variant of the loop body that advances the time stepper twice
AdvanceTwice(ts) == AdvanceTimeStep(AdvanceTimeStep(ts))

\* what one pass of Integrate's loop does to the time stepper before AlphaStep
AdvanceInLoop(ts) == AdvanceTimeStep(ts)

LoopAdvance ==
    /\ UNCHANGED library
    /\ pc = "loop"
    /\ i < time_stepper_.n_steps_
    /\ step_entry' = [time_stepper |-> time_stepper_, heap |-> heap]
    /\ time_stepper_' = AdvanceInLoop(time_stepper_)
    /\ pc' = "alpha_step"
    /\ UNCHANGED <<arguments, is_converged_, heap, states, i, frame, appended,
                   check_passed, update_ops, step_log, checked, oob>>

IntegrateReturn ==
    /\ UNCHANGED library
    /\ pc = "loop"
    /\ ~(i < time_stepper_.n_steps_)
    /\ pc' = "done"
    /\ UNCHANGED <<arguments, is_converged_, time_stepper_, heap, states, i, frame,
                   appended, step_entry, check_passed, update_ops, step_log, checked,
                   oob>>

\* AlphaStep up to the Newton loop: the views of the given State, the predictor
\* written through them, and the loop's initialisation
Predict ==
    /\ UNCHANGED library
    /\ pc = "alpha_step"
    /\ LET state == states[i + 1]
           velocity == heap[state.velocity_]
           acceleration == heap[state.acceleration_]
           algo_acceleration == heap[state.algorithmic_acceleration_]
           size == Len(velocity)
           algo_acceleration_next ==
               View([k \in 1..size |->
                        PredictAlgoAccelerationNext(acceleration[k], algo_acceleration[k])],
                    size)
       IN /\ frame' =
                [gen_coords |-> state.generalized_coords_,
                 velocity |-> state.velocity_,
                 acceleration |-> state.acceleration_,
                 algo_acceleration |-> state.algorithmic_acceleration_,
                 gen_coords_next |-> Vec(Len(heap[state.generalized_coords_]), Zero),
                 algo_acceleration_next |-> algo_acceleration_next,
                 delta_gen_coords |->
                     View([k \in 1..size |->
                              PredictDeltaGenCoords(velocity[k], algo_acceleration[k],
                                                    algo_acceleration_next[k])], size),
                 lagrange_mults_next |-> Vec(n_constraints, Zero)]
          /\ heap' =
                [heap EXCEPT
                   ![state.velocity_] =
                       View([k \in 1..size |->
                                PredictVelocity(velocity[k], algo_acceleration[k],
                                                algo_acceleration_next[k])], size),
                   ![state.algorithmic_acceleration_] = algo_acceleration_next,
                   ![state.acceleration_] = Vec(size, Zero)]
    /\ time_stepper_' = SetNumberOfIterations(time_stepper_, 0)
    /\ check_passed' = FALSE
    /\ step_log' = <<"predict">>
    /\ pc' = "newton"
    /\ UNCHANGED <<arguments, is_converged_, states, i, appended, step_entry,
                   update_ops, checked, oob>>

\* the linear system of one iteration: [matrix, rhs]
LinearSystem(iteration_matrix, residuals, size) ==
    IF precondition_
      THEN [matrix |-> multiply_matrix_with_matrix(
                           dl(size), multiply_matrix_with_matrix(iteration_matrix, dr(size))),
            rhs |-> ScaleResiduals(residuals)]
      ELSE [matrix |-> iteration_matrix, rhs |-> residuals]

\* the operations of a pass of the Newton loop up to the convergence check
ResidualAndCheck(converged) ==
    <<"UpdateGeneralizedCoordinates", "residual",
      IF converged THEN "CheckConvergence: true" ELSE "CheckConvergence: false">>

\* the operations of a pass between a failed check and the increments
MatrixAndSolve == <<"it_matrix", "solve_linear_system">>

\* one pass of the Newton loop: coordinate update, residual, convergence check,
\* and unless converged the iteration matrix, the solve and the increments
NewtonIteration ==
    /\ UNCHANGED library
    /\ pc = "newton"
    /\ LoopCondition(time_stepper_.n_iterations_, time_stepper_.max_iterations_)
    /\ \E level \in ResidualChoices,
          garbage \in GarbageChoices(heap[frame.gen_coords], frame.delta_gen_coords) :
         LET velocity == heap[frame.velocity]
             acceleration == heap[frame.acceleration]
             gen_coords_next ==
                 UpdateGeneralizedCoordinates(heap[frame.gen_coords],
                                              frame.delta_gen_coords, garbage)
             residuals == residual(level, acceleration, frame.lagrange_mults_next)
         IN /\ update_ops' = UpdateOperations
            /\ checked' = [residual |-> residuals, result |-> CheckConvergence(residuals)]
            /\ IF CheckConvergence(residuals)
                 THEN /\ is_converged_' = TRUE
                      /\ step_log' = step_log \o ResidualAndCheck(TRUE)
                      /\ check_passed' = TRUE
                      /\ pc' = "close"
                      /\ frame' = [frame EXCEPT !.gen_coords_next = gen_coords_next]
                      /\ oob' = (oob \/ UpdateOutOfExtent(heap[frame.gen_coords],
                                                          frame.delta_gen_coords))
                      /\ UNCHANGED <<time_stepper_, heap, states, appended>>
                 ELSE \E singular \in SingularChoices :
                      LET system == LinearSystem(
                              it_matrix(singular, velocity, frame.lagrange_mults_next),
                              residuals, Len(velocity))
                          solved == solve_linear_system(system.matrix, system.rhs)
                          inc == ApplyIncrements(solved.x, frame.delta_gen_coords, velocity,
                                                 acceleration, frame.lagrange_mults_next)
                      IN /\ oob' = (oob \/ UpdateOutOfExtent(heap[frame.gen_coords],
                                                             frame.delta_gen_coords)
                                        \/ (precondition_ /\ ScalingOutOfExtent(residuals)))
                         /\ IF ~solved.ok
                              THEN \* the solver's exception leaves AlphaStep and Integrate
                                   /\ pc' = "failed"
                                   /\ step_log' = step_log \o ResidualAndCheck(FALSE) \o
                                                  MatrixAndSolve
                                   /\ frame' = NoFrame
                                   /\ states' = << >>
                                   /\ UNCHANGED <<time_stepper_, heap, is_converged_,
                                                  check_passed, appended>>
                              ELSE /\ frame' = [frame EXCEPT
                                          !.gen_coords_next = gen_coords_next,
                                          !.delta_gen_coords = inc.delta_gen_coords,
                                          !.lagrange_mults_next = inc.lagrange_mults_next]
                                   /\ heap' = [heap EXCEPT
                                          ![frame.velocity] = inc.velocity,
                                          ![frame.acceleration] = inc.acceleration]
                                   /\ time_stepper_' =
                                          IncrementNumberOfIterations(time_stepper_)
                                   /\ step_log' = step_log \o ResidualAndCheck(FALSE) \o
                                                  MatrixAndSolve \o <<"increments">>
                                   /\ pc' = "newton"
                                   /\ UNCHANGED <<is_converged_, check_passed, states,
                                                  appended>>
    /\ UNCHANGED <<arguments, i, step_entry>>

\* a build with Kokkos bounds checking aborts at the first access outside an extent
BoundsCheckAbort ==
    /\ UNCHANGED library
    /\ pc = "newton"
    /\ LoopCondition(time_stepper_.n_iterations_, time_stepper_.max_iterations_)
    /\ (UpdateOutOfExtent(heap[frame.gen_coords], frame.delta_gen_coords)
        \/ (precondition_ /\ Len(heap[frame.velocity]) + n_constraints < 6))
    /\ oob' = TRUE
    /\ pc' = "aborted"
    /\ UNCHANGED <<arguments, is_converged_, time_stepper_, heap, states, i, frame,
                   appended, step_entry, check_passed, update_ops, step_log, checked>>

\* a variant of the append that keeps only the State of a converged step
emplace_back_converged(vector, element) ==
    IF is_converged_ THEN Append(vector, element) ELSE vector

\* std::vector::emplace_back
emplace_back(vector, element) == Append(vector, element)

\* a variant of the accumulation that counts one iteration per step
AccumulateOne(ts) == IncrementTotalNumberOfIterations(ts, 1)

\* the step's iterations added to the total once the Newton loop has ended
AccumulateIterations(ts) == IncrementTotalNumberOfIterations(ts, ts.n_iterations_)

\* the end of the Newton loop, the rest of AlphaStep, and Integrate's
\* states.emplace_back of the State it returns
CloseStep ==
    /\ UNCHANGED library
    /\ pc \in {"newton", "close"}
    /\ pc = "newton" => ~LoopCondition(time_stepper_.n_iterations_,
                                       time_stepper_.max_iterations_)
    /\ LET velocity == heap[frame.velocity]
           acceleration == heap[frame.acceleration]
           algo_acceleration_next ==
               View([k \in 1..Len(velocity) |->
                        CloseAlgoAcceleration(frame.algo_acceleration_next[k],
                                              acceleration[k])], Len(velocity))
           made == StateConstructor(heap, frame.gen_coords_next, velocity, acceleration,
                                    algo_acceleration_next)
       IN /\ heap' = made.heap
          /\ states' = emplace_back(states, made.state)
          /\ appended' = Append(appended, Entries(made.heap, made.state))
          /\ frame' = [frame EXCEPT !.algo_acceleration_next = algo_acceleration_next]
    /\ time_stepper_' = AccumulateIterations(time_stepper_)
    /\ i' = i + 1
    /\ pc' = "loop"
    /\ step_log' = Append(step_log, "close")
    /\ UNCHANGED <<arguments, is_converged_, step_entry, check_passed, update_ops, checked,
                   oob>>

Next ==
    \/ Construct
    \/ IntegrateBegin
    \/ LoopAdvance
    \/ Predict
    \/ NewtonIteration
    \/ BoundsCheckAbort
    \/ CloseStep
    \/ IntegrateReturn

Spec == Init /\ [][Next]_vars

(***************************************************************************)
(* MassMatrix and GeneralizedForces (state.cpp)                            *)
(***************************************************************************)
Thrown == [thrown |-> TRUE, value |-> << >>]

Returned(value) == [thrown |-> FALSE, value |-> value]

\* a constructor that rejects only a negative mass
MassMatrixAcceptingZeroMass(mass, J) ==
    IF RLess(mass, Zero) THEN Thrown
    ELSE IF RLessEq(J[1], Zero) \/ RLessEq(J[2], Zero) \/ RLessEq(J[3], Zero) THEN Thrown
    ELSE Returned([mass_ |-> mass, principal_moment_of_inertia_ |-> J,
                   mass_matrix_ |-> << <<mass, Zero, Zero, Zero, Zero, Zero>>,
                                       <<Zero, mass, Zero, Zero, Zero, Zero>>,
                                       <<Zero, Zero, mass, Zero, Zero, Zero>>,
                                       <<Zero, Zero, Zero, J[1], Zero, Zero>>,
                                       <<Zero, Zero, Zero, Zero, J[2], Zero>>,
                                       <<Zero, Zero, Zero, Zero, Zero, J[3]>> >>])

\* MassMatrix::MassMatrix(double mass, Vector J)
MassMatrix(mass, J) ==
    IF RLessEq(mass, Zero) THEN Thrown
    ELSE IF RLessEq(J[1], Zero) \/ RLessEq(J[2], Zero) \/ RLessEq(J[3], Zero) THEN Thrown
    ELSE Returned([mass_ |-> mass, principal_moment_of_inertia_ |-> J,
                   mass_matrix_ |-> << <<mass, Zero, Zero, Zero, Zero, Zero>>,
                                       <<Zero, mass, Zero, Zero, Zero, Zero>>,
                                       <<Zero, Zero, mass, Zero, Zero, Zero>>,
                                       <<Zero, Zero, Zero, J[1], Zero, Zero>>,
                                       <<Zero, Zero, Zero, Zero, J[2], Zero>>,
                                       <<Zero, Zero, Zero, Zero, Zero, J[3]>> >>])

\* MassMatrix::MassMatrix(HostView2D mass_matrix)
MassMatrix_HostView2D(mass_matrix) ==
    IF Len(mass_matrix) # 6 \/ Len(mass_matrix[1]) # 6 THEN Thrown
    ELSE Returned([mass_ |-> mass_matrix[1][1],
                   principal_moment_of_inertia_ |->
                       <<mass_matrix[4][4], mass_matrix[5][5], mass_matrix[6][6]>>,
                   mass_matrix_ |-> mass_matrix])

\* GeneralizedForces::GeneralizedForces(const Vector& forces, const Vector& moments)
GeneralizedForces(forces, moments) ==
    Returned([forces_ |-> forces, moments_ |-> moments,
              generalized_forces_ |-> <<forces[1], forces[2], forces[3],
                                        moments[1], moments[2], moments[3]>>])

\* GeneralizedForces::GeneralizedForces(HostView1D generalized_forces)
GeneralizedForces_HostView1D(generalized_forces) ==
    IF Len(generalized_forces) # 6 THEN Thrown
    ELSE Returned([generalized_forces_ |-> generalized_forces])

(***************************************************************************)
(* rotate_vector and quaternion_to_rotation_matrix (quaternion.cpp)        *)
(***************************************************************************)
\* at most one component of q is not zero
OnAxis(q) == Cardinality({k \in 1..4 : q[k] # Zero}) <= 1

\* a unit test without a tolerance
IsUnitQuaternionExact(q) ==
    IF OnAxis(q) THEN RAbs(RAdd(RAdd(q[1], q[2]), RAdd(q[3], q[4]))) = One
    ELSE LengthSquared(q) = One

\* Quaternion::IsUnitQuaternion: close_to(Length(), 1.), evaluated exactly.  On
\* an axis Length() is the magnitude of the one component; otherwise
\* |sqrt(s) - 1| < e is decided as s / (1 + e) < 1 + e and 1 - e < s / (1 - e),
\* so that neither the root nor the square of a bound is formed
IsUnitQuaternion(q) ==
    IF OnAxis(q)
      THEN close_to(RAbs(RAdd(RAdd(q[1], q[2]), RAdd(q[3], q[4]))), One)
      ELSE LET upper == RAdd(One, kTOLERANCE)
               lower == RSub(One, kTOLERANCE)
           IN /\ RLess(RDiv(LengthSquared(q), upper), upper)
              /\ RLess(lower, RDiv(LengthSquared(q), lower))

\* a * b + c * d and a * b - c * d on doubles
SumOfProducts(a, b, c, d) == RAdd(RMul(a, b), RMul(c, d))

DifferenceOfProducts(a, b, c, d) == RSub(RMul(a, b), RMul(c, d))

\* the rows of the rotation matrix of q = (q0, q1, q2, q3)
RotationRows(q) ==
    LET q0 == q[1]
        q1 == q[2]
        q2 == q[3]
        q3 == q[4]
        two == R(2)
    IN << << RSub(RSub(SumOfProducts(q0, q0, q1, q1), RMul(q2, q2)), RMul(q3, q3)),
             RMul(two, DifferenceOfProducts(q1, q2, q0, q3)),
             RMul(two, SumOfProducts(q1, q3, q0, q2)) >>,
          << RMul(two, SumOfProducts(q1, q2, q0, q3)),
             RSub(RAdd(DifferenceOfProducts(q0, q0, q1, q1), RMul(q2, q2)), RMul(q3, q3)),
             RMul(two, DifferenceOfProducts(q2, q3, q0, q1)) >>,
          << RMul(two, DifferenceOfProducts(q1, q3, q0, q2)),
             RMul(two, SumOfProducts(q2, q3, q0, q1)),
             RAdd(RSub(DifferenceOfProducts(q0, q0, q1, q1), RMul(q2, q2)), RMul(q3, q3)) >> >>

\* Vector rotate_vector(const Quaternion& quaternion, const Vector& vector)
rotate_vector(quaternion, vector) ==
    IF ~IsUnitQuaternion(quaternion) THEN Thrown
    ELSE LET rows == RotationRows(quaternion)
         IN Returned(View([r \in 1..3 |->
                              RAdd(RAdd(RMul(rows[r][1], vector[1]),
                                        RMul(rows[r][2], vector[2])),
                                   RMul(rows[r][3], vector[3]))], 3))

\* RotationMatrix quaternion_to_rotation_matrix(const Quaternion& quaternion)
quaternion_to_rotation_matrix(quaternion) ==
    IF ~IsUnitQuaternion(quaternion) THEN Thrown
    ELSE Returned(RotationRows(quaternion))

\* the Vector k * v with k = 2 * atan2(sqrt(sin_angle_squared), q0) /
\* sqrt(sin_angle_squared): the factor is irrational and is kept by its
\* arguments; it is positive whenever sin_angle_squared is
ScaledVector(sin_angle_squared, q0, v) ==
    [sin_angle_squared |-> sin_angle_squared, q0 |-> q0, direction |-> v]

\* the Vector{0.0, 0.0, 0.0}
NullVector == ScaledVector(Zero, Zero, <<Zero, Zero, Zero>>)

rotation_vector_from_quaternion(quaternion) ==
    LET q0 == quaternion[1]
        q1 == quaternion[2]
        q2 == quaternion[3]
        q3 == quaternion[4]
        sin_angle_squared == RAdd(RAdd(RMul(q1, q1), RMul(q2, q2)), RMul(q3, q3))
    IN IF close_to(sin_angle_squared, Zero) THEN Returned(NullVector)
       ELSE Returned(ScaledVector(sin_angle_squared, q0, <<q1, q2, q3>>))

(***************************************************************************)
(* The heavy-top assemblers of heavy_top.cpp                               *)
(***************************************************************************)
create_cross_product_matrix(v) ==
    << <<Zero, RNeg(v[3]), v[2]>>,
       <<v[3], Zero, RNeg(v[1])>>,
       <<RNeg(v[2]), v[1], Zero>> >>

transpose_matrix(A) ==
    View([c \in 1..Len(A[1]) |-> View([r \in 1..Len(A) |-> A[r][c]], Len(A))], Len(A[1]))

multiply_matrix_with_vector(A, x) ==
    View([r \in 1..Len(A) |->
             SumTo(View([c \in 1..Len(x) |-> RMul(A[r][c], x[c])], Len(x)), Len(x))],
         Len(A))

\* a variant of the gradient whose cross-product matrix is not rotated
heavy_top_constraint_gradient_matrix_unrotated(position_vector, rotation_matrix) ==
    LET I_3x3 == create_identity_matrix(3)
        X == create_cross_product_matrix(position_vector)
    IN View([r \in 1..3 |->
                View([c \in 1..6 |-> IF c - 1 < 3 THEN RNeg(I_3x3[r][c])
                                     ELSE RNeg(X[r][c - 3])], 6)], 3)

\* [B] = [ -I_3x3    -[R ~{X}] ]
heavy_top_constraint_gradient_matrix(position_vector, rotation_matrix) ==
    LET I_3x3 == create_identity_matrix(3)
        X == create_cross_product_matrix(position_vector)
        RX == multiply_matrix_with_matrix(rotation_matrix, X)
    IN View([r \in 1..3 |->
                View([c \in 1..6 |-> IF c - 1 < 3 THEN RNeg(I_3x3[r][c])
                                     ELSE RNeg(RX[r][c - 3])], 6)], 3)

\* {residual} = [M(q)] {v'} + {g(q,v,t)} + [B(q)]T {Lambda}: a view of extent 6
heavy_top_residual_vector(mass_matrix, rotation_matrix, acceleration_vector, gen_forces_vector, position_vector, lagrange_multipliers) ==
    LET constraint_gradient_matrix ==
            heavy_top_constraint_gradient_matrix(position_vector, rotation_matrix)
        first_term == multiply_matrix_with_vector(mass_matrix, acceleration_vector)
        second_term == gen_forces_vector
        third_term == multiply_matrix_with_vector(
                          transpose_matrix(constraint_gradient_matrix), lagrange_multipliers)
    IN View([k \in 1..6 |-> RAdd(RAdd(first_term[k], second_term[k]), third_term[k])], 6)

\* a variant of the damping matrix that adds the two parts of its block
heavy_top_tangent_damping_matrix_sum(angular_velocity_vector, inertia_matrix) ==
    LET first == multiply_matrix_with_matrix(
                     create_cross_product_matrix(angular_velocity_vector), inertia_matrix)
        second == create_cross_product_matrix(
                      multiply_matrix_with_vector(inertia_matrix, angular_velocity_vector))
    IN View([r \in 1..6 |->
                View([c \in 1..6 |->
                         IF r > 3 /\ c > 3
                         THEN RAdd(first[r - 3][c - 3], second[r - 3][c - 3])
                         ELSE Zero], 6)], 6)

\* [C_t]: only the 3 x 3 lower right block is non-zero
heavy_top_tangent_damping_matrix(angular_velocity_vector, inertia_matrix) ==
    LET angular_velocity_matrix == create_cross_product_matrix(angular_velocity_vector)
        nonzero_block_first_part ==
            multiply_matrix_with_matrix(angular_velocity_matrix, inertia_matrix)
        J_Omega == multiply_matrix_with_vector(inertia_matrix, angular_velocity_vector)
        nonzero_block_second_part == create_cross_product_matrix(J_Omega)
        nonzero_block ==
            View([r \in 1..3 |->
                     View([c \in 1..3 |-> RSub(nonzero_block_first_part[r][c],
                                               nonzero_block_second_part[r][c])], 3)], 3)
    IN View([r \in 1..6 |->
                View([c \in 1..6 |->
                         IF r - 1 < 3 /\ c - 1 < 3 THEN Zero
                         ELSE IF r - 1 < 3 /\ c - 1 >= 3 THEN Zero
                         ELSE IF r - 1 >= 3 /\ c - 1 < 3 THEN Zero
                         ELSE nonzero_block[r - 3][c - 3]], 6)], 6)

\* [K_t]: only the 3 x 3 lower right block is non-zero
heavy_top_tangent_stiffness_matrix(position_vector, rotation_matrix, lagrange_multipliers) ==
    LET X == create_cross_product_matrix(position_vector)
        RT_Lambda == multiply_matrix_with_vector(transpose_matrix(rotation_matrix),
                                                 lagrange_multipliers)
        RT_Lambda_matrix == create_cross_product_matrix(RT_Lambda)
        non_zero_block == multiply_matrix_with_matrix(X, RT_Lambda_matrix)
    IN View([r \in 1..6 |->
                View([c \in 1..6 |->
                         IF r - 1 < 3 /\ c - 1 < 3 THEN Zero
                         ELSE IF r - 1 < 3 /\ c - 1 >= 3 THEN Zero
                         ELSE IF r - 1 >= 3 /\ c - 1 < 3 THEN Zero
                         ELSE non_zero_block[r - 3][c - 3]], 6)], 6)

\* a variant of the iteration matrix that leaves its upper-right block zero
heavy_top_iteration_matrix_without_transpose(beta_prime, gamma_prime, mass_matrix, inertia_matrix, rotation_matrix, angular_velocity_vector, position_vector, lagrange_multipliers) ==
    LET Ct == heavy_top_tangent_damping_matrix(angular_velocity_vector, inertia_matrix)
        Kt == heavy_top_tangent_stiffness_matrix(position_vector, rotation_matrix,
                                                 lagrange_multipliers)
        B == heavy_top_constraint_gradient_matrix(position_vector, rotation_matrix)
    IN View([r \in 1..9 |->
                View([c \in 1..9 |->
                         IF r <= 6 /\ c <= 6
                         THEN RAdd(RAdd(RMul(mass_matrix[r][c], beta_prime),
                                        RMul(Ct[r][c], gamma_prime)), Kt[r][c])
                         ELSE IF r > 6 /\ c <= 6 THEN B[r - 6][c]
                         ELSE Zero], 9)], 9)

\* [ [M] * beta' + [C_t] * gamma' + [K_t]    [B^T] ]
\* [               [B]                        [0]  ]
heavy_top_iteration_matrix(beta_prime, gamma_prime, mass_matrix, inertia_matrix, rotation_matrix, angular_velocity_vector, position_vector, lagrange_multipliers) ==
    LET tangent_damping_matrix ==
            heavy_top_tangent_damping_matrix(angular_velocity_vector, inertia_matrix)
        tangent_stiffness_matrix ==
            heavy_top_tangent_stiffness_matrix(position_vector, rotation_matrix,
                                               lagrange_multipliers)
        constraint_gradient_matrix ==
            heavy_top_constraint_gradient_matrix(position_vector, rotation_matrix)
        size_dofs == Len(mass_matrix)
        size_constraints == Len(constraint_gradient_matrix)
        size_it_matrix == size_dofs + size_constraints
        element1 ==
            View([r \in 1..size_dofs |->
                     View([c \in 1..size_dofs |->
                              RAdd(RAdd(RMul(mass_matrix[r][c], beta_prime),
                                        RMul(tangent_damping_matrix[r][c], gamma_prime)),
                                   tangent_stiffness_matrix[r][c])], size_dofs)], size_dofs)
        element2 == transpose_matrix(constraint_gradient_matrix)
        element3 == constraint_gradient_matrix
        element4 == View([r \in 1..3 |-> Vec(3, Zero)], 3)
    IN View([r \in 1..size_it_matrix |->
                View([c \in 1..size_it_matrix |->
                         IF r - 1 < size_dofs /\ c - 1 < size_dofs THEN element1[r][c]
                         ELSE IF r - 1 < size_dofs /\ c - 1 >= size_dofs
                           THEN element2[r][c - size_dofs]
                         ELSE IF r - 1 >= size_dofs /\ c - 1 < size_dofs
                           THEN element3[r - size_dofs][c]
                         ELSE element4[r - size_dofs][c - size_dofs]], size_it_matrix)],
            size_it_matrix)

(***************************************************************************)
(* Calls of the constructors of state.cpp and the functions of             *)
(* quaternion.cpp, each on arguments of its own                            *)
(***************************************************************************)
\* masses and principal moments tried: negative, zero and positive
Masses == {R(-1), Zero, Rat(1, 2), R(2)}

Inertias == {R(-1), Zero, One, R(3)}

\* extents of the views handed to the constructors: below, at and above six
Extents == {5, 6, 7}

\* a view whose entries all differ
HostView1D(n) == View([k \in 1..n |-> R(k)], n)

HostView2D(rows, cols) ==
    View([r \in 1..rows |-> View([c \in 1..cols |-> R(10 * r + c)], cols)], rows)

Vectors == {<<Zero, Zero, Zero>>, <<One, Zero, Zero>>, <<R(1), R(2), R(3)>>,
            <<R(-4), Rat(1, 2), R(6)>>}

\* lengths at the tolerance from 1 and farther, and lengths within it
NonUnitLengths == {Rat(1000001, 1000000), Rat(999999, 1000000), R(2), Rat(1, 2), Zero}

NearUnitLengths == {Rat(2000001, 2000000), Rat(1999999, 2000000), One}

\* the quaternion of length |x| along the axis k
AxisQuaternion(k, x) == View([j \in 1..4 |-> IF j = k THEN x ELSE Zero], 4)

Quaternions ==
    {AxisQuaternion(k, x) : k \in 1..4, x \in NonUnitLengths \cup {One, R(-1)}}
    \cup {<<One, One, Zero, Zero>>, <<Rat(3, 5), Rat(4, 5), Zero, Zero>>,
          <<Rat(1, 2), Rat(1, 2), Rat(1, 2), Rat(1, 2)>>,
          <<Rat(1, 2), Rat(-1, 2), Rat(1, 2), Rat(-1, 2)>>,
          <<Zero, Rat(3, 5), Zero, Rat(-4, 5)>>, <<Rat(6, 5), Zero, Rat(8, 5), Zero>>,
          <<Rat(1, 2), Rat(1, 2), Rat(1, 2), Zero>>}

\* heavy-top problems: diagonal and full mass and inertia matrices, the identity
\* and two other rotations, and multipliers and velocities with a zero case
HeavyTopProblems ==
    {Problem(M, J, rot, X, Omega, lambda, VecOfInts(<<1, 2, 3, 4, 5, 6>>),
             VecOfInts(<<0, 0, 3, 0, 1, 0>>), primes) :
        M \in {MassMatrix(R(2), <<R(1), R(2), R(3)>>).value.mass_matrix_, HostView2D(6, 6)},
        J \in {<< <<R(1), Zero, Zero>>, <<Zero, R(2), Zero>>, <<Zero, Zero, R(3)>> >>,
               HostView2D(3, 3)},
        rot \in {create_identity_matrix(3),
                 << <<Zero, R(-1), Zero>>, <<One, Zero, Zero>>, <<Zero, Zero, One>> >>,
                 RotationRows(<<Rat(3, 5), Rat(4, 5), Zero, Zero>>)},
        X \in {VecOfInts(<<1, 2, 3>>), VecOfInts(<<0, 1, 0>>)},
        Omega \in {VecOfInts(<<0, 0, 0>>), VecOfInts(<<1, 0, 2>>)},
        lambda \in {VecOfInts(<<0, 0, 0>>), VecOfInts(<<2, -1, 3>>)},
        primes \in {<<R(4), R(2)>>, <<Rat(1, 2), R(3)>>}}

\* quaternions whose vector part has a length of 0, between the tolerance and
\* its root, at the root 1/1000 of the tolerance, just above it, and larger
SmallRotations ==
    {<<q0, x, Zero, Zero>> :
        q0 \in {One, Zero, R(-1)},
        x \in {Zero, Rat(1, 10000), Rat(-1, 2000), Rat(1, 1000), Rat(1, 999), Rat(3, 5)}}
    \cup {<<q0, Zero, x, x>> : q0 \in {One, Rat(4, 5)}, x \in {Rat(1, 10000), Rat(1, 2)}}

HeavyTopCall(op, problem) ==
    [Call(op, Zero, << >>, << >>, << >>, << >>, << >>) EXCEPT !.problem = problem]

LibraryCalls ==
    {Call("MassMatrix(mass, J)", m, <<x, y, z>>, << >>, << >>, << >>, << >>) :
        m \in Masses, x \in Inertias, y \in Inertias, z \in Inertias}
    \cup {Call("MassMatrix(mass_matrix)", Zero, << >>, << >>, << >>, << >>,
               HostView2D(r, c)) : r \in Extents, c \in Extents}
    \cup {Call("GeneralizedForces(forces, moments)", Zero, f, m, << >>, << >>, << >>) :
             f \in Vectors, m \in Vectors}
    \cup {Call("GeneralizedForces(generalized_forces)", Zero, << >>, << >>, << >>,
               HostView1D(n), << >>) : n \in Extents}
    \cup {Call("rotate_vector", Zero, v, << >>, q, << >>, << >>) :
             q \in Quaternions, v \in Vectors}
    \cup {Call("quaternion_to_rotation_matrix", Zero, << >>, << >>, q, << >>, << >>) :
             q \in Quaternions}
    \cup {Call("rotation_vector_from_quaternion", Zero, << >>, << >>, q, << >>, << >>) :
             q \in SmallRotations}
    \cup {HeavyTopCall(op, problem) :
             op \in {"heavy_top_residual_vector", "heavy_top_constraint_gradient_matrix",
                     "heavy_top_iteration_matrix", "heavy_top_tangent_damping_matrix",
                     "heavy_top_tangent_stiffness_matrix"},
             problem \in HeavyTopProblems}

\* no integrator is involved in these calls
LibraryInit ==
    /\ pc = "library"
    /\ call \in LibraryCalls
    /\ result = << >>
    /\ Arguments(<<Zero, Zero, Rat(1, 2), One>>, Zero, One, 1, 1, DefaultState, "identity",
                 FALSE, 0)
    /\ is_converged_ = FALSE
    /\ states = << >>
    /\ i = 0
    /\ frame = NoFrame
    /\ appended = << >>
    /\ step_entry = [time_stepper |-> time_stepper_, heap |-> heap]
    /\ check_passed = FALSE
    /\ update_ops = << >>
    /\ step_log = << >>
    /\ checked = [residual |-> << >>, result |-> FALSE]
    /\ oob = FALSE

\* the call returns its value, or throws std::invalid_argument and returns none
Outcome(r) ==
    /\ pc' = IF r.thrown THEN "invalid_argument" ELSE "returned"
    /\ result' = r.value
    /\ UNCHANGED <<integrator, call>>

ConstructMassMatrix ==
    /\ pc = "library"
    /\ call.op = "MassMatrix(mass, J)"
    /\ Outcome(MassMatrix(call.scalar, call.first))

ConstructMassMatrixFromView ==
    /\ pc = "library"
    /\ call.op = "MassMatrix(mass_matrix)"
    /\ Outcome(MassMatrix_HostView2D(call.view2))

ConstructGeneralizedForces ==
    /\ pc = "library"
    /\ call.op = "GeneralizedForces(forces, moments)"
    /\ Outcome(GeneralizedForces(call.first, call.second))

ConstructGeneralizedForcesFromView ==
    /\ pc = "library"
    /\ call.op = "GeneralizedForces(generalized_forces)"
    /\ Outcome(GeneralizedForces_HostView1D(call.view1))

RotateVector ==
    /\ pc = "library"
    /\ call.op = "rotate_vector"
    /\ Outcome(rotate_vector(call.quaternion, call.first))

QuaternionToRotationMatrix ==
    /\ pc = "library"
    /\ call.op = "quaternion_to_rotation_matrix"
    /\ Outcome(quaternion_to_rotation_matrix(call.quaternion))

RotationVectorFromQuaternion ==
    /\ pc = "library"
    /\ call.op = "rotation_vector_from_quaternion"
    /\ Outcome(rotation_vector_from_quaternion(call.quaternion))

HeavyTopResidualVector ==
    /\ pc = "library"
    /\ call.op = "heavy_top_residual_vector"
    /\ Outcome(Returned(heavy_top_residual_vector(
           call.problem.mass_matrix, call.problem.rotation_matrix,
           call.problem.acceleration_vector, call.problem.gen_forces_vector,
           call.problem.position_vector, call.problem.lagrange_multipliers)))

HeavyTopConstraintGradientMatrix ==
    /\ pc = "library"
    /\ call.op = "heavy_top_constraint_gradient_matrix"
    /\ Outcome(Returned(heavy_top_constraint_gradient_matrix(
           call.problem.position_vector, call.problem.rotation_matrix)))

HeavyTopIterationMatrix ==
    /\ pc = "library"
    /\ call.op = "heavy_top_iteration_matrix"
    /\ Outcome(Returned(heavy_top_iteration_matrix(
           call.problem.BETA_PRIME, call.problem.GAMMA_PRIME, call.problem.mass_matrix,
           call.problem.inertia_matrix, call.problem.rotation_matrix,
           call.problem.angular_velocity_vector, call.problem.position_vector,
           call.problem.lagrange_multipliers)))

HeavyTopTangentDampingMatrix ==
    /\ pc = "library"
    /\ call.op = "heavy_top_tangent_damping_matrix"
    /\ Outcome(Returned(heavy_top_tangent_damping_matrix(
           call.problem.angular_velocity_vector, call.problem.inertia_matrix)))

HeavyTopTangentStiffnessMatrix ==
    /\ pc = "library"
    /\ call.op = "heavy_top_tangent_stiffness_matrix"
    /\ Outcome(Returned(heavy_top_tangent_stiffness_matrix(
           call.problem.position_vector, call.problem.rotation_matrix,
           call.problem.lagrange_multipliers)))

LibraryNext ==
    \/ ConstructMassMatrix
    \/ ConstructMassMatrixFromView
    \/ ConstructGeneralizedForces
    \/ ConstructGeneralizedForcesFromView
    \/ RotateVector
    \/ QuaternionToRotationMatrix
    \/ RotationVectorFromQuaternion
    \/ HeavyTopResidualVector
    \/ HeavyTopConstraintGradientMatrix
    \/ HeavyTopIterationMatrix
    \/ HeavyTopTangentDampingMatrix
    \/ HeavyTopTangentStiffnessMatrix

LibrarySpec == LibraryInit /\ [][LibraryNext]_vars

(***************************************************************************)
(* Properties                                                              *)
(***************************************************************************)
\* Integrate's loop is running or has returned
InIntegrate == pc \in {"loop", "alpha_step", "newton", "close", "done"}

\* C1: Integrate with N steps returns a history of exactly N + 1 States whose
\* first element is the initial state; every step appends exactly one State,
\* whether or not a residual check of the step passed.
C1_HistoryLength ==
    /\ InIntegrate =>
          /\ Len(states) = i + 1
          /\ Len(appended) = i + 1
          /\ states[1] = initial_state
    /\ pc = "done" => Len(states) = time_stepper_.n_steps_ + 1

\* two steps without any residual check passing, both appended
C1_Witness ==
    /\ pc = "done"
    /\ time_stepper_.n_steps_ = 2
    /\ Len(states) = 3
    /\ ~is_converged_

\* C2: at the end of every AlphaStep either is_converged_ is true because a
\* residual check of this step passed, or is_converged_ is false and the step
\* made M iterations.
C2_TerminalStates ==
    (pc = "loop" /\ i > 0) =>
        \/ is_converged_ /\ check_passed
        \/ ~is_converged_ /\
              time_stepper_.n_iterations_ = time_stepper_.max_iterations_

\* C3: once a step's State has been appended, the entries of every State of
\* the history, and of the caller's initial_state, are those they had when
\* they were appended.
C3_HistoryUnchanged ==
    (pc \in {"loop", "done"} /\ i > 0) =>
        /\ \A k \in 1..Len(states) : Entries(heap, states[k]) = appended[k]
        /\ Entries(heap, initial_state) = appended[1]

\* C4: the per-step iteration counter never exceeds M, the total iteration
\* counter never exceeds N * M, and the total never decreases.
C4_IterationBounds ==
    /\ [](/\ time_stepper_.n_iterations_ <= time_stepper_.max_iterations_
          /\ time_stepper_.total_n_iterations_ <=
                time_stepper_.n_steps_ * time_stepper_.max_iterations_)
    /\ [][time_stepper_'.total_n_iterations_ >= time_stepper_.total_n_iterations_]_vars

\* two steps of two iterations each: the total reaches N * M
C4_Witness ==
    /\ pc = "done"
    /\ time_stepper_.n_steps_ = 2
    /\ time_stepper_.max_iterations_ = 2
    /\ time_stepper_.total_n_iterations_ = 4

\* C5: when the linear solve fails, the time stepper's current time and
\* iteration counters and the entries of every State accepted before the
\* failed step are those of the moment the step began.
C5_FailedStepKeepsAcceptedState ==
    pc = "failed" =>
        /\ time_stepper_.current_time_ = step_entry.time_stepper.current_time_
        /\ time_stepper_.n_iterations_ = step_entry.time_stepper.n_iterations_
        /\ time_stepper_.total_n_iterations_ =
              step_entry.time_stepper.total_n_iterations_
        /\ heap = step_entry.heap

\* the quaternion embedded in the generalized coordinates of a rigid body
Orientation(q) == <<q[4], q[5], q[6], q[7]>>

\* C6: on a rigid-body state whose initial quaternion is unit, the quaternion of
\* every State of the history is unit to within 1e-6, and the coordinate update
\* ends by renormalizing the composed quaternion.
C6_UnitQuaternion ==
    /\ \A k \in 1..Len(states) :
          (/\ Len(appended[1].q) = 7
           /\ LengthSquared(Orientation(appended[1].q)) = One)
          => RLess(RAbs(RSub(LengthSquared(Orientation(heap[states[k].generalized_coords_])),
                             One)),
                   Rat(1, 1000000))
    /\ update_ops # << >> => update_ops[Len(update_ops)] = "GetUnitQuaternion"

InRange(x, lo, hi) == RLessEq(lo, x) /\ RLessEq(x, hi)

ParametersInRange ==
    /\ InRange(kALPHA_F_, Zero, One)
    /\ InRange(kALPHA_M_, Zero, One)
    /\ InRange(kBETA_, Zero, Rat(1, 2))
    /\ InRange(kGAMMA_, Zero, One)

\* C7: construction succeeds exactly when alpha_f, alpha_m and gamma are in
\* [0, 1] and beta is in [0, 0.5], endpoints included; otherwise it fails with
\* invalid_argument.
C7_ConstructionRanges ==
    /\ pc = "invalid_argument" => ~ParametersInRange
    /\ pc \notin {"new", "invalid_argument"} => ParametersInRange

\* a construction with every parameter at an endpoint of its range
C7_Witness ==
    /\ pc = "constructed"
    /\ kALPHA_F_ = One
    /\ kALPHA_M_ = Zero
    /\ kBETA_ = Rat(1, 2)
    /\ kGAMMA_ = One

\* C8: the time stepper is advanced once per step, before the step's AlphaStep,
\* by h each time: the current time is t0 + (i + 1) * h inside step i and
\* t0 + N * h when Integrate returns.
C8_TimeAdvance ==
    LET t0 == time_stepper_.initial_time_
        h == time_stepper_.time_step_
        now == time_stepper_.current_time_
    IN /\ pc \in {"loop", "done"} => now = RAdd(t0, RMul(R(i), h))
       /\ pc \in {"alpha_step", "newton", "close"} => now = RAdd(t0, RMul(R(i + 1), h))
       /\ pc = "done" => now = RAdd(t0, RMul(R(time_stepper_.n_steps_), h))

\* TimeStepper(0., 0.1, 17): the current time after Integrate is 1.7
C8_Witness ==
    /\ pc = "done"
    /\ time_stepper_.n_steps_ = 17
    /\ time_stepper_.time_step_ = Rat(1, 10)
    /\ time_stepper_.current_time_ = Rat(17, 10)

\* alpha_f = alpha_m = 0, beta = 0.5, gamma = 1, h = 1, one step, identity builders
UnitTestRun ==
    /\ kALPHA_F_ = Zero
    /\ kALPHA_M_ = Zero
    /\ kBETA_ = Rat(1, 2)
    /\ kGAMMA_ = One
    /\ time_stepper_.time_step_ = One
    /\ time_stepper_.n_steps_ = 1
    /\ builders = "identity"

C10_Exhaustion ==
    /\ (pc \in {"loop", "done"} /\ i > 0 /\ ~check_passed) =>
          time_stepper_.n_iterations_ = time_stepper_.max_iterations_
    /\ (InIntegrate /\ builders = "identity") => ~is_converged_
    /\ (pc = "done" /\ ~is_converged_) =>
          /\ time_stepper_.n_iterations_ = time_stepper_.max_iterations_
          /\ time_stepper_.total_n_iterations_ =
                time_stepper_.n_steps_ * time_stepper_.max_iterations_
    /\ (/\ pc = "done"
        /\ UnitTestRun
        /\ time_stepper_.max_iterations_ = 2
        /\ appended[1] = DefaultState) =>
          Entries(heap, states[2]) =
              [q |-> VecOfInts(<<-1>>), v |-> VecOfInts(<<-4>>),
               a |-> VecOfInts(<<-4>>), aa |-> VecOfInts(<<-4>>)]

\* the unit-test run with M = 2 has returned after two iterations
C10_Witness ==
    /\ pc = "done"
    /\ UnitTestRun
    /\ time_stepper_.max_iterations_ = 2
    /\ appended[1] = DefaultState
    /\ time_stepper_.total_n_iterations_ = 2

\* alpha_f = alpha_m = 0, beta = 0.5, gamma = 1, h = 1, N = 2, M = 1, identity
\* builders, from the zero scalar State
TwoStepRun ==
    /\ kALPHA_F_ = Zero
    /\ kALPHA_M_ = Zero
    /\ kBETA_ = Rat(1, 2)
    /\ kGAMMA_ = One
    /\ time_stepper_.time_step_ = One
    /\ time_stepper_.n_steps_ = 2
    /\ time_stepper_.max_iterations_ = 1
    /\ builders = "identity"
    /\ appended[1] = DefaultState

\* C11 as stated: the two-step run ends in (q, v, a, algorithmic acceleration)
\* = (-1, -4, -4, -4).
C11_TwoSteps ==
    (pc = "done" /\ TwoStepRun) =>
        Entries(heap, states[3]) =
            [q |-> VecOfInts(<<-1>>), v |-> VecOfInts(<<-4>>),
             a |-> VecOfInts(<<-4>>), aa |-> VecOfInts(<<-4>>)]

\* C11, amended: the two-step run ends in (-2, -4, -2, -2); (-1, -4, -4, -4)
\* is the result of one step of two iterations.
C11_TwoStepsAmended ==
    (pc = "done" /\ TwoStepRun) =>
        Entries(heap, states[3]) =
            [q |-> VecOfInts(<<-2>>), v |-> VecOfInts(<<-4>>),
             a |-> VecOfInts(<<-2>>), aa |-> VecOfInts(<<-2>>)]

\* the two-step run has returned its three States
C11_Witness ==
    /\ pc = "done"
    /\ TwoStepRun
    /\ Len(states) = 3
    /\ time_stepper_.total_n_iterations_ = 2

\* the rotation increment of a coordinate update: the quaternion of h * (dq3, dq4, dq5)
IncrementQuaternion(dq, h) ==
    quaternion_from_rotation_vector(<<RMul(dq[4], h), RMul(dq[5], h), RMul(dq[6], h)>>)

\* a pass of the Newton loop that went on past its coordinate update, on views
\* of 7 coordinates and 6 increments
RigidBodyUpdate ==
    /\ pc = "newton"
    /\ pc' \in {"newton", "close"}
    /\ Len(heap[frame.gen_coords]) = 7
    /\ Len(frame.delta_gen_coords) = 6

\* C12: UpdateGeneralizedCoordinates(q, dq) with |q| = 7 and |dq| = 6 returns a
\* 7-vector: (q0, q1, q2) + h * (dq0, dq1, dq2), then the Hamilton product of
\* (q3, q4, q5, q6), on the left, with the quaternion of h * (dq3, dq4, dq5);
\* q is left unchanged, and so is dq (seen when the check that follows passes);
\* q = (0, -1, 0, 1, 0, 0, 0), dq = (1, 1, 1, 1, 2, 3), h = 1 gives the position
\* (1, 0, 1).
C12_CoordinateUpdate ==
    [][RigidBodyUpdate =>
          LET q == heap[frame.gen_coords]
              dq == frame.delta_gen_coords
              h == time_stepper_.time_step_
              next == frame'.gen_coords_next
          IN /\ Len(next) = 7
             /\ \A k \in 1..3 : next[k] = RAdd(q[k], RMul(h, dq[k]))
             /\ Orientation(next) =
                   QuaternionProduct(Orientation(q), IncrementQuaternion(dq, h))
             /\ heap'[frame.gen_coords] = q
             /\ pc' = "close" => frame'.delta_gen_coords = dq
             /\ (/\ q = VecOfInts(<<0, -1, 0, 1, 0, 0, 0>>)
                 /\ dq = VecOfInts(<<1, 1, 1, 1, 2, 3>>)
                 /\ h = One)
                => <<next[1], next[2], next[3]>> = VecOfInts(<<1, 0, 1>>)]_vars

\* an update whose two factors do not commute has been stored
C12_Witness ==
    /\ pc = "close"
    /\ Len(heap[frame.gen_coords]) = 7
    /\ Orientation(frame.gen_coords_next) =
          QuaternionProduct(Orientation(heap[frame.gen_coords]),
                            IncrementQuaternion(frame.delta_gen_coords,
                                                time_stepper_.time_step_))
    /\ Orientation(frame.gen_coords_next) #
          QuaternionProduct(IncrementQuaternion(frame.delta_gen_coords,
                                                time_stepper_.time_step_),
                            Orientation(heap[frame.gen_coords]))

RECURSIVE SumOfSquares(_)
SumOfSquares(r) ==
    IF r = << >> THEN Zero ELSE RAdd(RMul(Head(r), Head(r)), SumOfSquares(Tail(r)))

\* C13: every pass of the Newton loop hands the residual r to CheckConvergence,
\* whose result is TRUE exactly when the Euclidean norm of r is strictly below
\* 1e-4 (sum of squares below 1e-8) and FALSE at or above it; the check leaves
\* the integrator's parameters alone, and the converged flag changes only by
\* AlphaStep setting it after a TRUE result
C13_CheckConvergence ==
    [][(pc = "newton" /\ step_log' # step_log) =>
          /\ checked'.residual # << >>
          /\ checked'.result <=> RLess(SumOfSquares(checked'.residual),
                                        Rat(1, 100000000))
          /\ arguments' = arguments
          /\ is_converged_' = (checked'.result \/ is_converged_)
          /\ check_passed' = checked'.result]_vars

\* a residual whose norm is exactly the tolerance was handed in and rejected
C13_Witness ==
    /\ Len(checked.residual) = 4
    /\ SumOfSquares(checked.residual) = Rat(1, 100000000)
    /\ ~checked.result
    /\ "solve_linear_system" \in {step_log[k] : k \in 1..Len(step_log)}
\* C14: MassMatrix(m, J) throws invalid_argument exactly when m <= 0 or a
\* component of J is <= 0 and otherwise stores the 6x6 matrix
\* diag(m, m, m, Jx, Jy, Jz); MassMatrix(matrix) throws exactly when the extents
\* are not 6x6; GeneralizedForces(vector) throws exactly when the length is not
\* 6; GeneralizedForces(force, moment) stores (fx, fy, fz, mx, my, mz)
C14_StateConstruction ==
    /\ (call.op = "MassMatrix(mass, J)" /\ pc # "library") =>
          /\ pc = "invalid_argument" <=>
                (call.scalar.n <= 0 \/ \E k \in 1..3 : call.first[k].n <= 0)
          /\ pc = "returned" =>
                /\ Len(result.mass_matrix_) = 6
                /\ \A r \in 1..6 :
                      /\ Len(result.mass_matrix_[r]) = 6
                      /\ \A c \in 1..6 :
                            result.mass_matrix_[r][c] =
                                IF r # c THEN Zero
                                ELSE IF r <= 3 THEN call.scalar ELSE call.first[r - 3]
    /\ (call.op = "MassMatrix(mass_matrix)" /\ pc # "library") =>
          /\ pc = "invalid_argument" <=>
                ~(Len(call.view2) = 6 /\ \A r \in 1..Len(call.view2) : Len(call.view2[r]) = 6)
          /\ pc = "returned" => result.mass_matrix_ = call.view2
    /\ (call.op = "GeneralizedForces(generalized_forces)" /\ pc # "library") =>
          /\ pc = "invalid_argument" <=> Len(call.view1) # 6
          /\ pc = "returned" => result.generalized_forces_ = call.view1
    /\ (call.op = "GeneralizedForces(forces, moments)" /\ pc # "library") =>
          /\ pc = "returned"
          /\ result.generalized_forces_ = call.first \o call.second

\* a zero mass with positive moments of inertia was rejected
C14_Witness ==
    /\ call.op = "MassMatrix(mass, J)"
    /\ call.scalar = Zero
    /\ \A k \in 1..3 : call.first[k].n > 0
    /\ pc = "invalid_argument"
\* the length of q is 1e-6 or more from 1, decided by another route than the
\* unit test: on an axis by the magnitude of the component; otherwise by the
\* sum of squares s, for which |sqrt(s) - 1| >= e is s >= 1 + 2e + e^2 or
\* s <= 1 - 2e + e^2, and e^2 = 1e-12 is below the resolution of the s tried
FarFromUnit(q) ==
    IF OnAxis(q)
      THEN RLessEq(kTOLERANCE,
                   RAbs(RSub(RAbs(RAdd(RAdd(q[1], q[2]), RAdd(q[3], q[4]))), One)))
      ELSE \/ RLess(RAdd(One, RMul(R(2), kTOLERANCE)), LengthSquared(q))
           \/ RLessEq(LengthSquared(q), RSub(One, RMul(R(2), kTOLERANCE)))

\* C15: rotate_vector and quaternion_to_rotation_matrix throw, and return no
\* result, whenever the length of the quaternion differs from 1 by 1e-6 or
\* more, and never for a quaternion whose length is within 1e-6 of 1
C15_UnitQuaternionRequired ==
    /\ (call.op \in {"rotate_vector", "quaternion_to_rotation_matrix"} /\ pc # "library") =>
          /\ pc = "invalid_argument" <=> FarFromUnit(call.quaternion)
          /\ pc = "invalid_argument" => result = << >>
          /\ pc = "returned" => Len(result) = 3
    /\ \A k \in 1..4, x \in NearUnitLengths :
          /\ ~FarFromUnit(AxisQuaternion(k, x))
          /\ IsUnitQuaternion(AxisQuaternion(k, x))
          /\ IsUnitQuaternion(AxisQuaternion(k, RNeg(x)))

\* a quaternion whose length is exactly 1e-6 above 1 was rejected
C15_Witness ==
    /\ call.op = "rotate_vector"
    /\ call.quaternion = AxisQuaternion(1, Rat(1000001, 1000000))
    /\ pc = "invalid_argument"
\* how often the current step has performed the operation
Count(op) == Cardinality({k \in 1..Len(step_log) : step_log[k] = op})

\* the operations that may directly follow an operation within one AlphaStep
Successors(op) ==
    CASE op = "predict" -> {"UpdateGeneralizedCoordinates"}
      [] op = "UpdateGeneralizedCoordinates" -> {"residual"}
      [] op = "residual" -> {"CheckConvergence: true", "CheckConvergence: false"}
      [] op = "CheckConvergence: true" -> {"close"}
      [] op = "CheckConvergence: false" -> {"it_matrix"}
      [] op = "it_matrix" -> {"solve_linear_system"}
      [] op = "solve_linear_system" -> {"increments"}
      [] op = "increments" -> {"UpdateGeneralizedCoordinates", "close"}
      [] OTHER -> {}

\* C16: within one AlphaStep the operations occur in the order predict, then
\* repeated (residual, convergence check, and only after a failed check:
\* iteration matrix, linear solve, increments), then close; neither the
\* builder nor the solver runs after a passing check; the number of solves
\* equals the step's iteration count, at most M; the number of residual
\* evaluations is the iteration count plus one if the step converged and the
\* iteration count otherwise.  (A step the solver's exception ended has made
\* the throwing solve in addition.)
C16_StepOrder ==
    step_log # << >> =>
      /\ step_log[1] = "predict"
      /\ \A k \in 1..(Len(step_log) - 1) : step_log[k + 1] \in Successors(step_log[k])
      /\ Count("CheckConvergence: true") = (IF check_passed THEN 1 ELSE 0)
      /\ Count("it_matrix") = Count("solve_linear_system")
      /\ Count("solve_linear_system") =
            time_stepper_.n_iterations_ + (IF pc = "failed" THEN 1 ELSE 0)
      /\ time_stepper_.n_iterations_ <= time_stepper_.max_iterations_
      /\ Count("residual") = time_stepper_.n_iterations_
                               + (IF check_passed \/ pc = "failed" THEN 1 ELSE 0)
      /\ pc = "loop" => step_log[Len(step_log)] = "close" /\ Count("close") = 1

\* a step that converged at its second check after one solve, and was closed
C16_Witness ==
    /\ pc = "loop"
    /\ step_log = <<"predict", "UpdateGeneralizedCoordinates", "residual",
                    "CheckConvergence: false", "it_matrix", "solve_linear_system",
                    "increments", "UpdateGeneralizedCoordinates", "residual",
                    "CheckConvergence: true", "close">>
    /\ time_stepper_.n_iterations_ = 1
    /\ time_stepper_.max_iterations_ = 2
\* h * c * x
Scaled(c, x) == RMul(RMul(time_stepper_.time_step_, c), x)

\* C17: the predictor computes, per entry and from the values of the accepted
\* State, a~_next = (alpha_f a - alpha_m a~) / (1 - alpha_m),
\* dq = v + h (1/2 - beta) a~ + h beta a~_next with v before its update, and
\* v_new = v + h (1 - gamma) a~ + h gamma a~_next with the old a~; then the
\* acceleration is 0 and each of the n_constraints Lagrange multipliers is 0
C17_Predictor ==
    [][(pc = "alpha_step" /\ pc' = "newton") =>
          LET state == states[i + 1]
              v == heap[state.velocity_]
              a == heap[state.acceleration_]
              aa == heap[state.algorithmic_acceleration_]
              next == frame'.algo_acceleration_next
          IN /\ Len(next) = Len(v)
             /\ Len(frame'.delta_gen_coords) = Len(v)
             /\ Len(heap'[state.velocity_]) = Len(v)
             /\ \A k \in 1..Len(v) :
                   /\ next[k] = RDiv(RSub(RMul(kALPHA_F_, a[k]), RMul(kALPHA_M_, aa[k])),
                                     RSub(One, kALPHA_M_))
                   /\ frame'.delta_gen_coords[k] =
                         RAdd(RAdd(v[k], Scaled(RSub(Rat(1, 2), kBETA_), aa[k])),
                              Scaled(kBETA_, next[k]))
                   /\ heap'[state.velocity_][k] =
                         RAdd(RAdd(v[k], Scaled(RSub(One, kGAMMA_), aa[k])),
                              Scaled(kGAMMA_, next[k]))
                   /\ heap'[state.acceleration_][k] = Zero
             /\ Len(heap'[state.acceleration_]) = Len(v)
             /\ frame'.lagrange_mults_next = [k \in 1..n_constraints |-> Zero]]_vars

\* the predictor has run on a State with a non-zero algorithmic acceleration
\* that its a~_next differs from, with gamma < 1 and a constraint
C17_Witness ==
    /\ pc = "newton"
    /\ step_log = <<"predict">>
    /\ n_constraints = 1
    /\ kGAMMA_ = Rat(1, 2)
    /\ \E k \in 1..Len(frame.algo_acceleration_next) :
          /\ step_entry.heap[frame.algo_acceleration][k] # Zero
          /\ step_entry.heap[frame.algo_acceleration][k] # frame.algo_acceleration_next[k]
          /\ heap[frame.velocity][k] # frame.delta_gen_coords[k]
    /\ frame.lagrange_mults_next = <<Zero>>
\* the product of a matrix and a vector
MatrixTimesVector(A, x) ==
    View([r \in 1..Len(A) |->
             SumTo(View([c \in 1..Len(x) |-> RMul(A[r][c], x[c])], Len(x)), Len(x))],
         Len(A))

\* a pass of the Newton loop that did not converge and whose solve returned
IncrementingPass == pc = "newton" /\ pc' = "newton" /\ step_log' # step_log

\* C18: in each Newton iteration that does not converge, with x the solution of
\* J x = r (after the optional preconditioning) and dx = -x, the increments are
\* dq += dx_v / h, v += gamma' dx_v and a += beta' dx_v over the first n
\* entries, and lambda += dx_lambda over the entries n..n+m-1 (divided by
\* beta h^2 when preconditioned), where
\* beta' = (1 - alpha_m) / (h^2 beta (1 - alpha_f)) and gamma' = gamma / (h beta);
\* with n_constraints = 0 no multiplier is touched
C18_Increments ==
    [][IncrementingPass =>
          LET h == time_stepper_.time_step_
              v == heap[frame.velocity]
              a == heap[frame.acceleration]
              dq == frame.delta_gen_coords
              lambda == frame.lagrange_mults_next
              n == Len(dq)
              beta_prime == RDiv(RSub(One, kALPHA_M_),
                                 RMul(RMul(RMul(h, h), kBETA_), RSub(One, kALPHA_F_)))
              gamma_prime == RDiv(kGAMMA_, RMul(h, kBETA_))
          IN \A system \in {LinearSystem(create_identity_matrix(n + n_constraints),
                                          checked'.residual, n)} :
             \A x \in {solve_linear_system(system.matrix, system.rhs).x} :
             /\ Len(x) = n + n_constraints
             /\ VectorIsFinite(x) => MatrixTimesVector(system.matrix, x) = system.rhs
             /\ \A k \in 1..n :
                   /\ frame'.delta_gen_coords[k] = RAdd(dq[k], RDiv(RNeg(x[k]), h))
                   /\ heap'[frame.velocity][k] = RAdd(v[k], RMul(gamma_prime, RNeg(x[k])))
                   /\ heap'[frame.acceleration][k] = RAdd(a[k], RMul(beta_prime, RNeg(x[k])))
             /\ Len(frame'.lagrange_mults_next) = n_constraints
             /\ \A j \in 1..n_constraints :
                   frame'.lagrange_mults_next[j] =
                       RAdd(lambda[j],
                            IF precondition_
                              THEN RDiv(RNeg(x[n + j]), RMul(RMul(kBETA_, h), h))
                              ELSE RNeg(x[n + j]))
             /\ n_constraints = 0 => frame'.lagrange_mults_next = lambda]_vars

\* two preconditioned iterations with a constraint and h = 1/2 have been applied
C18_Witness ==
    /\ pc = "newton"
    /\ time_stepper_.n_iterations_ = 2
    /\ precondition_
    /\ n_constraints = 1
    /\ time_stepper_.time_step_ = Rat(1, 2)
    /\ Len(frame.delta_gen_coords) = 6
    /\ VectorIsFinite(frame.delta_gen_coords)
    /\ frame.lagrange_mults_next # <<Zero>>
\* C19: after the Newton loop has ended, by convergence or by exhaustion, the
\* step is closed exactly once: the algorithmic acceleration of the returned
\* State is the predictor's a~_next plus (1 - alpha_f) / (1 - alpha_m) times
\* the final acceleration of the step
C19_CloseStep ==
    [][(pc \in {"newton", "close"} /\ pc' = "loop") =>
          LET a0 == step_entry.heap[frame.acceleration]
              aa0 == step_entry.heap[frame.algo_acceleration]
              returned == Entries(heap', states'[Len(states')])
              factor == RDiv(RSub(One, kALPHA_F_), RSub(One, kALPHA_M_))
          IN /\ Len(states') = Len(states) + 1
             /\ Count("close") = 0
             /\ step_log' = Append(step_log, "close")
             /\ returned.a = heap[frame.acceleration]
             /\ Len(returned.aa) = Len(returned.a)
             /\ \A k \in 1..Len(returned.a) :
                   returned.aa[k] =
                       RAdd(RDiv(RSub(RMul(kALPHA_F_, a0[k]), RMul(kALPHA_M_, aa0[k])),
                                 RSub(One, kALPHA_M_)),
                            RMul(factor, returned.a[k]))]_vars

\* a step was closed with a factor other than 1 and a non-zero acceleration
C19_Witness ==
    /\ pc = "loop"
    /\ Len(states) = 2
    /\ kALPHA_F_ = Rat(1, 2)
    /\ kALPHA_M_ = Zero
    /\ IsFinite(appended[2].a[1])
    /\ appended[2].a[1] # Zero
    /\ appended[2].aa[1] = RMul(Rat(1, 2), appended[2].a[1])
\* a full matrix of the size of the iteration matrix, all entries different
FullMatrix(size) ==
    View([r \in 1..size |-> View([c \in 1..size |-> R(10 * r + c)], size)], size)

\* the diagonal matrix with x on the first n rows and y on the others
Diagonal(size, n, x, y) ==
    View([r \in 1..size |->
             View([c \in 1..size |-> IF r # c THEN Zero ELSE IF r <= n THEN x ELSE y],
                  size)], size)

\* what AlphaStep builds for the solver: the left scale has x on the velocity
\* rows and y on the constraint rows, the right scale 1 and 1 / (beta h^2),
\* the matrix handed to the solver is DL J DR; without preconditioning the
\* matrix and the residual are handed over as they are
ScalesAre(x, y) ==
    LET n == Len(heap[frame.velocity])
        size == n + n_constraints
        J == FullMatrix(size)
        r == Vec(size, One)
        beta_h2 == RMul(RMul(kBETA_, time_stepper_.time_step_), time_stepper_.time_step_)
    IN \A system \in {LinearSystem(J, r, n)} :
          IF precondition_
            THEN /\ dl(n) = Diagonal(size, n, x, y)
                 /\ dr(n) = Diagonal(size, n, One, RDiv(One, beta_h2))
                 /\ \A row \in 1..size, col \in 1..size :
                       system.matrix[row][col] =
                           RMul(RMul(IF row <= n THEN x ELSE y, J[row][col]),
                                IF col <= n THEN One ELSE RDiv(One, beta_h2))
            ELSE system = [matrix |-> J, rhs |-> r]

\* C20 as stated: with preconditioning the left scale DL has 1 on the velocity
\* rows 0..n-1 and beta h^2 on the constraint rows n..n+m-1, the right scale DR
\* has 1 on the columns 0..n-1 and 1 / (beta h^2) on the columns n..n+m-1, and
\* the iteration matrix is replaced by DL J DR before the solve; without
\* preconditioning J and r are solved unscaled
C20_Preconditioner ==
    pc = "newton" => ScalesAre(One, BetaHSquared)

\* C20, amended: the left scale DL has beta h^2 on the velocity rows 0..n-1 and
\* 1 on the constraint rows n..n+m-1; the right scale DR has 1 on the columns
\* 0..n-1 and 1 / (beta h^2) on the columns n..n+m-1; the iteration matrix is
\* replaced by DL J DR before the solve; without preconditioning J and r are
\* solved unscaled
C20_PreconditionerAmended ==
    pc = "newton" => ScalesAre(BetaHSquared, One)

\* a preconditioned solve with a constraint and beta h^2 = 1/8 has been made
C20_Witness ==
    /\ pc = "newton"
    /\ precondition_
    /\ n_constraints = 1
    /\ BetaHSquared = Rat(1, 8)
    /\ time_stepper_.n_iterations_ = 1
    /\ Count("solve_linear_system") = 1
\* C21: in the preconditioned path the residual is scaled consistently with
\* the left scale for every problem size: the residual handed to the solver is
\* DL r, exactly the n velocity rows being multiplied by beta h^2, and no
\* residual index outside 0..n+m-1 is accessed
C21_ResidualScaling ==
    (pc = "newton" /\ precondition_ /\ Count("solve_linear_system") > 0) =>
        LET n == Len(heap[frame.velocity])
            r == checked.residual
        IN /\ Len(r) = n + n_constraints
           /\ ScaleResiduals(r) = MatrixTimesVector(dl(n), r)
           /\ ~ScalingOutOfExtent(r)
\* C22: the residual handed to the solver has as many entries as the iteration
\* matrix has rows and columns, n + m: for the identity builders of an Integrate
\* run, and for the heavy-top assemblers, whose matrix is (6 + 3) x (6 + 3).
C22_ResidualLength ==
    /\ (pc = "newton" /\ Count("solve_linear_system") > 0) =>
           Len(checked.residual) = Len(heap[frame.velocity]) + n_constraints
    /\ (pc = "returned" /\ call.op = "heavy_top_iteration_matrix") =>
           /\ Len(result) = 6 + 3
           /\ \A r \in 1..Len(result) : Len(result[r]) = 6 + 3
    /\ (pc = "returned" /\ call.op = "heavy_top_residual_vector") =>
           Len(result) = 6 + 3
\* C23: heavy_top_iteration_matrix returns a 9 x 9 matrix whose upper-left 6 x 6
\* block is M * beta' + Ct * gamma' + Kt, whose upper-right block is the
\* transpose of the constraint gradient B, whose lower-left block is B and
\* whose lower-right block is zero, so that J(i, 6 + j) = J(6 + j, i); the
\* arguments of the call are left as they were.
C23_IterationMatrix ==
    /\ []((pc = "returned" /\ call.op = "heavy_top_iteration_matrix") =>
            \A p \in {call.problem} :
            \A Ct \in {heavy_top_tangent_damping_matrix(p.angular_velocity_vector,
                                                        p.inertia_matrix)} :
            \A Kt \in {heavy_top_tangent_stiffness_matrix(p.position_vector,
                           p.rotation_matrix, p.lagrange_multipliers)} :
            \A B \in {heavy_top_constraint_gradient_matrix(p.position_vector,
                                                           p.rotation_matrix)} :
                /\ Len(result) = 9
                /\ \A r \in 1..9 : Len(result[r]) = 9
                /\ \A r \in 1..6 : \A c \in 1..6 :
                       result[r][c] = RAdd(RAdd(RMul(p.mass_matrix[r][c], p.BETA_PRIME),
                                                RMul(Ct[r][c], p.GAMMA_PRIME)), Kt[r][c])
                /\ \A r \in 1..6 : \A c \in 1..3 :
                       /\ result[r][6 + c] = B[c][r]
                       /\ result[6 + c][r] = B[c][r]
                       /\ result[r][6 + c] = result[6 + c][r]
                /\ \A r \in 1..3 : \A c \in 1..3 : result[6 + r][6 + c] = Zero)
    /\ [][call.op = "heavy_top_iteration_matrix" => call' = call]_vars

\* an iteration matrix of a problem with a full mass matrix, a nonzero angular
\* velocity and nonzero multipliers: all three terms of the upper-left block
\* contribute, and the gradient's -1 stands in row 0 of the upper-right block
C23_Witness ==
    /\ pc = "returned"
    /\ call.op = "heavy_top_iteration_matrix"
    /\ call.problem.mass_matrix = HostView2D(6, 6)
    /\ call.problem.angular_velocity_vector = VecOfInts(<<1, 0, 2>>)
    /\ call.problem.lagrange_multipliers = VecOfInts(<<2, -1, 3>>)
    /\ heavy_top_tangent_damping_matrix(call.problem.angular_velocity_vector,
                                        call.problem.inertia_matrix)[5][6] # Zero
    /\ heavy_top_tangent_stiffness_matrix(call.problem.position_vector,
           call.problem.rotation_matrix, call.problem.lagrange_multipliers)[5][6] # Zero
    /\ result[1][7] = R(-1)
    /\ result[7][1] = R(-1)
\* C24: heavy_top_constraint_gradient_matrix returns the 3 x 6 matrix whose
\* columns 0-2 are -I3 and whose columns 3-5 are -(R * [X]), [X] being the
\* skew-symmetric matrix [[0,-X3,X2],[X3,0,-X1],[-X2,X1,0]] of the position
\* vector; for X = (1,2,3) that matrix is [[0,-3,2],[3,0,-1],[-2,1,0]].
C24_ConstraintGradient ==
    /\ create_cross_product_matrix(VecOfInts(<<1, 2, 3>>))
           = << VecOfInts(<<0, -3, 2>>), VecOfInts(<<3, 0, -1>>), VecOfInts(<<-2, 1, 0>>) >>
    /\ (pc = "returned" /\ call.op = "heavy_top_constraint_gradient_matrix") =>
           \A rot \in {call.problem.rotation_matrix} :
           \A X \in {call.problem.position_vector} :
           \A skew \in {<< <<Zero, RNeg(X[3]), X[2]>>,
                           <<X[3], Zero, RNeg(X[1])>>,
                           <<RNeg(X[2]), X[1], Zero>> >>} :
               /\ Len(result) = 3
               /\ \A r \in 1..3 :
                      /\ Len(result[r]) = 6
                      /\ \A c \in 1..3 :
                             /\ result[r][c] = (IF r = c THEN R(-1) ELSE Zero)
                             /\ result[r][3 + c] =
                                    RNeg(RAdd(RAdd(RMul(rot[r][1], skew[1][c]),
                                                   RMul(rot[r][2], skew[2][c])),
                                              RMul(rot[r][3], skew[3][c])))

\* the gradient for X = (1,2,3) under the quarter turn about the third axis:
\* row 0 of R * [X] is (-3, 0, 1), which differs from row 0 of [X]
C24_Witness ==
    /\ pc = "returned"
    /\ call.op = "heavy_top_constraint_gradient_matrix"
    /\ call.problem.position_vector = VecOfInts(<<1, 2, 3>>)
    /\ call.problem.rotation_matrix[1] = VecOfInts(<<0, -1, 0>>)
    /\ result[1] = VecOfInts(<<-1, 0, 0, 3, 0, -1>>)
\* the skew-symmetric matrix [v] with [v] * w = v x w
Skew(v) ==
    << <<Zero, RNeg(v[3]), v[2]>>, <<v[3], Zero, RNeg(v[1])>>, <<RNeg(v[2]), v[1], Zero>> >>

Dot3(a, b) == RAdd(RAdd(RMul(a[1], b[1]), RMul(a[2], b[2])), RMul(a[3], b[3]))

Column3(A, c) == <<A[1][c], A[2][c], A[3][c]>>

\* a 6 x 6 matrix that is zero outside its lower-right 3 x 3 block
OnlyLowerRight(A) ==
    /\ Len(A) = 6
    /\ \A r \in 1..6 :
           /\ Len(A[r]) = 6
           /\ \A c \in 1..6 : (r <= 3 \/ c <= 3) => A[r][c] = Zero

\* C25: the tangent damping and tangent stiffness matrices are 6 x 6 and zero
\* outside the lower-right 3 x 3 block; the block of the damping matrix is
\* [Omega] * J - [J * Omega], that of the stiffness matrix [X] * [R^T * lambda].
C25_TangentMatrices ==
    /\ (pc = "returned" /\ call.op = "heavy_top_tangent_damping_matrix") =>
           \A J \in {call.problem.inertia_matrix} :
           \A Omega \in {call.problem.angular_velocity_vector} :
           \A J_Omega \in {<<Dot3(J[1], Omega), Dot3(J[2], Omega), Dot3(J[3], Omega)>>} :
               /\ OnlyLowerRight(result)
               /\ \A r \in 1..3 : \A c \in 1..3 :
                      result[3 + r][3 + c] =
                          RSub(Dot3(Skew(Omega)[r], Column3(J, c)), Skew(J_Omega)[r][c])
    /\ (pc = "returned" /\ call.op = "heavy_top_tangent_stiffness_matrix") =>
           \A rot \in {call.problem.rotation_matrix} :
           \A X \in {call.problem.position_vector} :
           \A lambda \in {call.problem.lagrange_multipliers} :
           \A RT_Lambda \in {<<Dot3(Column3(rot, 1), lambda), Dot3(Column3(rot, 2), lambda),
                               Dot3(Column3(rot, 3), lambda)>>} :
               /\ OnlyLowerRight(result)
               /\ \A r \in 1..3 : \A c \in 1..3 :
                      result[3 + r][3 + c] = Dot3(Skew(X)[r], Column3(Skew(RT_Lambda), c))

\* the damping matrix of a full inertia matrix and the angular velocity
\* (1, 0, 2): its block has entries that are not zero
C25_Witness ==
    /\ pc = "returned"
    /\ call.op = "heavy_top_tangent_damping_matrix"
    /\ call.problem.inertia_matrix = HostView2D(3, 3)
    /\ call.problem.angular_velocity_vector = VecOfInts(<<1, 0, 2>>)
    /\ \E r \in 4..6 : \E c \in 4..6 : result[r][c] # Zero
    /\ result[1][1] = Zero
\* C26: over the whole of an Integrate run neither the per-step iteration
\* counter nor the total iteration counter of the time stepper ever decreases.
C26_CountersMonotone ==
    [][/\ time_stepper_'.n_iterations_ >= time_stepper_.n_iterations_
       /\ time_stepper_'.total_n_iterations_ >= time_stepper_.total_n_iterations_]_vars

\* C26, amended: the total iteration counter never decreases; the per-step
\* counter never decreases within a step, and the only step of the run that
\* lowers it is the reset to 0 with which each AlphaStep opens its Newton loop.
C26_CountersAmended ==
    [][/\ time_stepper_'.total_n_iterations_ >= time_stepper_.total_n_iterations_
       /\ \/ time_stepper_'.n_iterations_ >= time_stepper_.n_iterations_
          \/ /\ pc = "alpha_step"
             /\ pc' = "newton"
             /\ step_log' = <<"predict">>
             /\ time_stepper_'.n_iterations_ = 0]_vars

\* the second step has opened its loop: the counter is back at 0 although the
\* first step counted two iterations, which the total still holds
C26_Witness ==
    /\ pc = "newton"
    /\ i = 1
    /\ step_log = <<"predict">>
    /\ time_stepper_.n_iterations_ = 0
    /\ time_stepper_.total_n_iterations_ = 2
    /\ step_entry.time_stepper.n_iterations_ = 2
\* C27: rotation_vector_from_quaternion returns the zero vector exactly when
\* the length s of (q1, q2, q3) is within the tolerance of 0; for every larger
\* s it returns k * (q1, q2, q3) with k = 2 * atan2(s, q0) / s; the identity
\* quaternion gives the null rotation vector.
C27_RotationVector ==
    (pc = "returned" /\ call.op = "rotation_vector_from_quaternion") =>
        \A q \in {call.quaternion} :
        \A s_squared \in {RAdd(RAdd(RMul(q[2], q[2]), RMul(q[3], q[3])),
                               RMul(q[4], q[4]))} :
        \A s_is_close \in {s_squared = Zero \/ SqrtLess(s_squared, kTOLERANCE)} :
            /\ (result.direction = <<Zero, Zero, Zero>>) <=> s_is_close
            /\ ~s_is_close => result = ScaledVector(s_squared, q[1], <<q[2], q[3], q[4]>>)
            /\ q = <<One, Zero, Zero, Zero>> => result = NullVector
\* C28: the State a step returns is consistent: its generalized coordinates
\* are the update of the step's initial coordinates by the final increment
\* dq, the one its velocity and acceleration reflect, whether the step
\* converged or used up its iterations.
C28_ReturnedStateConsistent ==
    (Len(step_log) > 0 /\ step_log[Len(step_log)] = "close") =>
        \E garbage \in GarbageChoices(heap[frame.gen_coords], frame.delta_gen_coords) :
            frame.gen_coords_next =
                UpdateGeneralizedCoordinates(heap[frame.gen_coords],
                                             frame.delta_gen_coords, garbage)
\* C29: in a step of an integrator that the constructor accepted, with h > 0,
\* every divisor of AlphaStep is nonzero: 1 - alpha_m (predictor and close),
\* h^2 * beta * (1 - alpha_f) (beta'), h * beta (gamma') and beta * h^2 (the
\* preconditioner).
C29_DivisorsNonzero ==
    (pc \in {"newton", "close"} /\ RLess(Zero, time_stepper_.time_step_)) =>
        \A h \in {time_stepper_.time_step_} :
            /\ RSub(One, kALPHA_M_) # Zero
            /\ RMul(RMul(RMul(h, h), kBETA_), RSub(One, kALPHA_F_)) # Zero
            /\ RMul(h, kBETA_) # Zero
            /\ precondition_ => BetaHSquared # Zero
\* C30: UpdateGeneralizedCoordinates accesses only indices inside the extents
\* of its arguments and of its 7-entry component list: once it has run in a
\* step, on coordinates and increments of any length n, no q(i) or dq(i) with
\* i >= n was read and no component with an index of 7 or more.
C30_UpdateWithinExtents ==
    (pc \in {"newton", "close"} /\ Count("UpdateGeneralizedCoordinates") > 0) =>
        /\ ~UpdateOutOfExtent(heap[frame.gen_coords], frame.delta_gen_coords)
        /\ Len(heap[frame.gen_coords]) <= 7
====
